---- MODULE Spec2Model ----
(***************************************************************************)
(* Verification model of the Basler colour-difference analysis package     *)
(* (src/sorc): AdvancedColorAnalyzer, AdvancedDataManager (the history     *)
(* store), DeltaEGraph persistence, the quality classifier and the GUI     *)
(* handlers that drive them.                                               *)
(*                                                                         *)
(* Units.  Times are whole seconds.  A LAB colour is a tuple <<L, a, b>>   *)
(* of integers; None and an empty array are both the empty tuple <<>>.     *)
(* Every scalar the code rounds with round(x, COLOR_DIFF_PRECISION) is     *)
(* kept in tenths (1.5 is 15).  Sample sizes are in hundredths of a cm.    *)
(* The values given to get_quality_grade are in ten-thousandths so that    *)
(* 1.0001 is representable.                                                *)
(***************************************************************************)
EXTENDS Integers, Sequences, FiniteSets, TLC

VARIABLES
    now,               \* time.time(), in seconds
    \* ---- AdvancedColorAnalyzer ----
    calibration_lab,   \* self.calibration_lab (<<>> is None)
    is_calibrated,     \* self.is_calibrated
    sample_size_cm,    \* self.sample_size_cm, hundredths of a cm
    pixels_per_cm,     \* self.pixels_per_cm
    de_method,         \* self.de_method
    result,            \* last value returned by analyze_frame (<<>> is None)
    \* ---- AdvancedDataManager ----
    history_data,      \* deque(maxlen = HISTORY_SIZE)
    start_time,        \* self.start_time
    save_counter,      \* self.save_counter
    stats_cache_time,  \* self.stats_cache_time
    \* ---- persistence medium ----
    file,              \* contents of gb.HISTORY_FILE (<<>>: no file)
    \* ---- DeltaEGraph ----
    graph_times,       \* self.times
    graph_values,      \* self.de_values
    graph_start,       \* self.start_time
    \* ---- application ----
    pc,                \* "running" or "closed"
    \* ---- quality classifier under test ----
    grade_in,          \* argument of get_quality_grade, ten-thousandths
    grade_out,         \* its return value ("none" before the call)
    \* ---- BaslerCameraThread (the worker) ----
    running,           \* self.running
    error_count,       \* self.error_count
    frame_count,       \* self.frame_count
    sampling_interval, \* self.sampling_interval, milliseconds
    last_sample_time,  \* last_sample_time of run(), milliseconds
    signal_queue,      \* color_analysis_signal emissions not yet handled by the GUI thread
    \* ---- statistics ----
    stats_cache,       \* self.stats_cache (<<>> is {})
    stats_out,         \* last value returned by get_statistics (<<>> is {})
    \* ---- delta-E engine under test ----
    de_lab1,           \* first argument of calculate_color_differences
    de_lab2,           \* second argument
    de_out,            \* what the engine returned for them (<<>> before the call)
    \* ---- history of the run ----
    op,                \* last operation: its name, argument and return value
    calibrated_with,   \* argument of the last calibrate() since the last reset
    last_saved,        \* Some(entries held at the last save_history() that returned True)
    produced,          \* the results the worker emitted, oldest first: time stamp and
                       \* start of the loop iteration that grabbed the frame
    \* ---- ColorAnalyzerTab warnings ----
    last_warning_time, \* self.last_warning_time, in seconds
    warnings,          \* the calls of show_warning_message so far: time and delta-E
    \* ---- answers of the data manager's queries ----
    csv_out,           \* what export_csv wrote and returned (<<>> before the call)
    recent_out,        \* what get_recent_data returned (<<>> before the call)
    \* ---- BaslerCameraThread life cycle ----
    thread_pc,         \* where run() stands
    stop_pc,           \* where the caller of stop() stands
    is_connected,      \* self.is_connected
    is_grabbing,       \* self.is_grabbing
    \* ---- analyze_frame step by step, next to the GUI thread ----
    an_pc,             \* where analyze_frame stands between its reads of the shared fields
    an_local,          \* what it has read and computed so far
    ui_pc              \* where the GUI thread stands inside calibrate / reset_calibration

vars == <<now, calibration_lab, is_calibrated, sample_size_cm, pixels_per_cm,
          de_method, result, history_data, start_time, save_counter,
          stats_cache_time, file, graph_times, graph_values, graph_start, pc,
          grade_in, grade_out, op, calibrated_with, last_saved,
          running, error_count, frame_count, sampling_interval, last_sample_time,
          signal_queue, stats_cache, stats_out, de_lab1, de_lab2, de_out, produced,
          last_warning_time, warnings, csv_out, recent_out,
          thread_pc, stop_pc, is_connected, is_grabbing, an_pc, an_local, ui_pc>>

analyzerVars == <<calibration_lab, is_calibrated, sample_size_cm, pixels_per_cm,
                  de_method, result, calibrated_with>>
storeVars == <<history_data, start_time, save_counter, stats_cache_time, stats_cache,
              stats_out, last_saved>>
graphVars == <<graph_times, graph_values, graph_start>>
gradeVars == <<grade_in, grade_out>>
workerVars == <<running, error_count, frame_count, sampling_interval, last_sample_time,
                signal_queue, produced>>
engineVars == <<de_lab1, de_lab2, de_out>>
warningVars == <<last_warning_time, warnings>>
queryVars == <<csv_out, recent_out>>
threadVars == <<thread_pc, stop_pc, is_connected, is_grabbing>>
raceVars == <<an_pc, an_local, ui_pc>>

-----------------------------------------------------------------------------
(* Bounds of the model *)

\* the clock stops advancing here
MaxTime == 4

\* capacity of the history deque (gb.HISTORY_SIZE is 1000 in the program)
HISTORY_SIZE == 3

\* appends between automatic saves (gb.HISTORY_AUTO_SAVE_INTERVAL is 10)
HISTORY_AUTO_SAVE_INTERVAL == 2

\* largest average chroma whose seventh power is a finite float (1.06e44 in
\* the program, far above every colour a camera delivers)
MaxPow7Chroma == 20

-----------------------------------------------------------------------------
(* Program constants (glob_basler_cmd_delta_2v.py) *)

REFERENCE_LAB == <<50, 0, 0>>
DEFAULT_SAMPLE_SIZE_CM == 100
MIN_SAMPLE_SIZE_CM == 10
MAX_SAMPLE_SIZE_CM == 500
SAMPLING_INTERVAL == 100
MIN_SAMPLING_INTERVAL == 10
MAX_SAMPLING_INTERVAL == 1000
\* seconds between warnings
WARNING_COOLDOWN == 3
DE_METHOD_CIE76 == "CIE76"
DE_METHOD_CIE2000 == "CIE2000"
DEFAULT_DE_METHOD == DE_METHOD_CIE76
\* thresholds in ten-thousandths
QUALITY_GRADE_EXCELLENT == 10000
QUALITY_GRADE_GOOD == 20000
QUALITY_GRADE_ACCEPTABLE == 30000
QUALITY_GRADE_DEFECTIVE == 50000

-----------------------------------------------------------------------------
(* Arithmetic helpers *)

Abs(x) == IF x < 0 THEN -x ELSE x
Max(x, y) == IF x >= y THEN x ELSE y
Min(x, y) == IF x <= y THEN x ELSE y

None == <<>>
Some(x) == <<x>>

RECURSIVE SqrtSearch(_, _, _)
\* largest r in lo..hi with r*r <= n
SqrtSearch(n, lo, hi) ==
    IF lo >= hi THEN lo
    ELSE LET mid == (lo + hi + 1) \div 2
         IN IF mid * mid <= n THEN SqrtSearch(n, mid, hi)
                              ELSE SqrtSearch(n, lo, mid - 1)

\* floor(sqrt(n)) for 0 <= n < 2^31
Isqrt(n) == SqrtSearch(n, 0, 46340)

-----------------------------------------------------------------------------
(* Real numbers.  The colours of the model have integer components and   *)
(* every delta-E the code computes on them has the form sqrt(n) / S_L     *)
(* with n a sum of squares of integers; it is carried as that pair, S_L   *)
(* in units of 1e-5, and only round() turns it into a number (in tenths). *)
(* A float can also be nan: finite is FALSE then, and the pair is unused. *)

SL_ONE == 100000

\* the nan of numpy arithmetic
NanReal == [radicand |-> 0, sl |-> SL_ONE, finite |-> FALSE]

\* what round() makes of nan: nan again, which is no number of tenths
NaN == -1

\* round(x, gb.COLOR_DIFF_PRECISION) of x = sqrt(x.radicand) / (x.sl / 1e5), in tenths
RoundReal(x) ==
    IF ~x.finite THEN NaN
    ELSE LET t == Isqrt(x.radicand * 1000000)      \* 1000 * sqrt(n)
         IN (2 * t * 1000 + x.sl) \div (2 * x.sl)

\* round(v, gb.COLOR_DIFF_PRECISION) of an integer v, in tenths
RoundInt(v) == 10 * v

IsLab(v) == Len(v) = 3

-----------------------------------------------------------------------------
(* AdvancedColorAnalyzer: pure parts *)

\* cv2 stores L scaled to 0..255 and a, b offset by 128; the mean L of a
\* region is carried in twentieths so that L*100/255 is exact
OPENCV_L_UNITS == 20

convert_opencv_lab_to_standard(lab_opencv) ==
    << (lab_opencv[1] * 100) \div (255 * OPENCV_L_UNITS),
       lab_opencv[2] - 128,
       lab_opencv[3] - 128 >>

calculate_delta_e_76(lab1, lab2) ==
    [radicand |-> (lab2[1] - lab1[1]) * (lab2[1] - lab1[1])
                + (lab2[2] - lab1[2]) * (lab2[2] - lab1[2])
                + (lab2[3] - lab1[3]) * (lab2[3] - lab1[3]),
     sl |-> SL_ONE,
     finite |-> TRUE]

\* S_L = 1 + 0.015 (Lavg - 50)^2 / sqrt(20 + (Lavg - 50)^2), Lavg = (L1 + L2) / 2,
\* in units of 1e-5; with m = L1 + L2 - 100 it is 1 + 0.0075 m^2 / sqrt(80 + m^2)
S_L(L1, L2) ==
    LET m == L1 + L2 - 100
    IN SL_ONE + (750 * m * m * 1000) \div Isqrt((80 + m * m) * 1000000)

\* C = np.sqrt(a**2 + b**2); the chromatic colours of the model have an
\* integer chroma
Chroma(lab) == Isqrt(lab[2] * lab[2] + lab[3] * lab[3])

\* C_avg**7 leaves the float64 range (from C_avg = 1.06e44 on in the
\* program); numpy then yields inf and raises nothing.  The numbers of the
\* model are 32 bits wide, so the range is scaled down: the seventh power
\* of an average chroma up to MaxPow7Chroma is finite, two_C_avg = C1 + C2.
Pow7Overflows(two_C_avg) == two_C_avg > 2 * MaxPow7Chroma

\* lab1 and lab2 have the same a and b
SameChromaticity(lab1, lab2) == lab1[2] = lab2[2] /\ lab1[3] = lab2[3]

\* CIEDE2000.  Nothing in the try block raises on three floats, so the except
\* branch (the CIE76 fallback) is taken for no pair of triples.
\*  - C_avg**7 infinite: inf / (inf + 25**7) is nan, and so are G, a', C',
\*    h' (nan == 0 is false, arctan2 of nan), delta_C', delta_h' (nan != 0 is
\*    true), every weight and delta_E, which is returned as it is.
\*  - otherwise, for two colours of the same a and b (the achromatic ones
\*    among them): G is shared, so a'1 = a'2, C'1 = C'2 and h'1 = h'2 (both 0
\*    when a' = b = 0), hence delta_C' = 0, delta_h' = 0 under either branch
\*    of the C'1 * C'2 != 0 test, delta_H' = 2 sqrt(C'1 C'2) sin(0) = 0, and
\*    delta_E = sqrt((delta_L' / (k_L * S_L))^2 + 0 + 0 + R_T * 0 * 0),
\*    k_L = gb.CIEDE2000_KL = 1.
calculate_delta_e_2000(lab1, lab2) ==
    IF Pow7Overflows(Chroma(lab1) + Chroma(lab2))
    THEN NanReal
    ELSE [radicand |-> (lab2[1] - lab1[1]) * (lab2[1] - lab1[1]),
          sl |-> S_L(lab1[1], lab2[1]),
          finite |-> TRUE]

ZeroDiffs ==
    [dl |-> 0, da |-> 0, db |-> 0, dc |-> 0, dh |-> 0,
     de76 |-> 0, de2000 |-> 0, de |-> 0]

\* lab1[i] raises (TypeError on None, IndexError on a short array)
DiffsFault(lab1, lab2) == ~IsLab(lab1) \/ ~IsLab(lab2)

\* calculate_color_differences reads self.de_method twice: method_2000 is
\* what the test that picks de_2000 reads, method_de what the one that picks
\* 'de' reads
color_differences_reads(lab1, lab2, method_2000, method_de) ==
    IF DiffsFault(lab1, lab2)
    THEN ZeroDiffs                               \* except Exception
    ELSE LET dl == lab2[1] - lab1[1]
             da == lab2[2] - lab1[2]
             db == lab2[3] - lab1[3]
             c1 == Chroma(lab1)
             c2 == Chroma(lab2)
             dc == c2 - c1
             \* c1 * c2 == 0, or h1 = h2 and 2 sqrt(c1 c2) sin(0) = 0
             dh == 0
             de_76 == calculate_delta_e_76(lab1, lab2)
             de_2000 == IF method_2000 = DE_METHOD_CIE2000
                        THEN calculate_delta_e_2000(lab1, lab2)
                        ELSE de_76
         IN [dl |-> RoundInt(dl), da |-> RoundInt(da), db |-> RoundInt(db),
             dc |-> RoundInt(dc), dh |-> RoundInt(dh),
             de76 |-> RoundReal(de_76),
             de2000 |-> RoundReal(de_2000),
             de |-> RoundReal(IF method_de = DE_METHOD_CIE2000 THEN de_2000 ELSE de_76)]

\* one thread: both reads see the same method
calculate_color_differences(lab1, lab2, method) ==
    color_differences_reads(lab1, lab2, method, method)

BASE_PIXELS_PER_CM == 30
DEFAULT_DEPTH_MM == 300
MIN_PIXELS_PER_CM == 10
INIT_PIXELS_PER_CM == 50

calculate_pixels_per_cm(depth_mm) ==
    LET depth == IF depth_mm <= 0 THEN DEFAULT_DEPTH_MM ELSE depth_mm
    IN Max(MIN_PIXELS_PER_CM, (BASE_PIXELS_PER_CM * DEFAULT_DEPTH_MM) \div depth)

-----------------------------------------------------------------------------
(* Inputs *)

\* mean L* of the sampled region of the frames the camera delivers
FrameL == {50, 53, 56}

\* frame.shape[:2] of the frames the camera delivers by default
DEFAULT_WIDTH == 1600
DEFAULT_HEIGHT == 1200

NoFrame == [kind |-> "none", width |-> 0, height |-> 0, lab_opencv |-> <<>>, rgb |-> <<>>]
\* frame.size == 0
EmptyFrame == [kind |-> "empty", width |-> 0, height |-> 0, lab_opencv |-> <<>>, rgb |-> <<>>]
\* an array cv2.cvtColor(frame, COLOR_BGR2LAB) raises on (a single-channel image)
BadFrame == [kind |-> "bad", width |-> DEFAULT_WIDTH, height |-> DEFAULT_HEIGHT,
             lab_opencv |-> <<>>, rgb |-> <<>>]
\* a grey BGR image of the given shape whose pixels have L* = L, a* = b* = 0
SizedFrame(L, width, height) ==
    [kind |-> "image", width |-> width, height |-> height,
     lab_opencv |-> <<(L * 255 * OPENCV_L_UNITS) \div 100, 128, 128>>,
     rgb |-> <<(L * 255) \div 100, (L * 255) \div 100, (L * 255) \div 100>>]

ImageFrame(L) == SizedFrame(L, DEFAULT_WIDTH, DEFAULT_HEIGHT)

\* <<width, height>> of the other images given to analyze_frame: smaller than
\* the smallest sampling square, square and as large as a mid-sized one, wider
\* than high
FrameShapes == {<<1, 2>>, <<100, 100>>, <<200, 80>>}

Frames == {NoFrame, EmptyFrame, BadFrame} \cup {ImageFrame(L) : L \in FrameL}
            \cup {SizedFrame(53, shape[1], shape[2]) : shape \in FrameShapes}

\* arguments given to calibrate(): LAB triples, and one array that is too short
LabInputs == {<<51, 0, 0>>, <<56, 0, 0>>}
CalibrationInputs == LabInputs \cup {<<50, 0>>}

\* arguments given to set_sample_size(), hundredths of a cm
SizeInputs == {5, 9, 10, 250, 500, 501, 600}

\* arguments given to update_de_method()
MethodInputs == {DE_METHOD_CIE76, DE_METHOD_CIE2000, "CIE94"}

-----------------------------------------------------------------------------
(* AdvancedColorAnalyzer: operations *)

NoOp == [name |-> "init", arg |-> <<>>, ret |-> "None", fault |-> FALSE]

\* the range test with an exclusive upper bound
SampleSizeOk_exclusiveMax(size_cm) ==
    MIN_SAMPLE_SIZE_CM <= size_cm /\ size_cm < MAX_SAMPLE_SIZE_CM

\* gb.MIN_SAMPLE_SIZE_CM <= size_cm <= gb.MAX_SAMPLE_SIZE_CM
SampleSizeOk(size_cm) == MIN_SAMPLE_SIZE_CM <= size_cm /\ size_cm <= MAX_SAMPLE_SIZE_CM

set_sample_size(size_cm) ==
    /\ IF SampleSizeOk(size_cm)
       THEN /\ sample_size_cm' = size_cm
            /\ op' = [name |-> "set_sample_size", arg |-> <<size_cm>>,
                      ret |-> "True", fault |-> FALSE]
       ELSE /\ sample_size_cm' = sample_size_cm
            /\ op' = [name |-> "set_sample_size", arg |-> <<size_cm>>,
                      ret |-> "False", fault |-> FALSE]
    /\ UNCHANGED <<calibration_lab, is_calibrated, pixels_per_cm, de_method,
                   result, calibrated_with>>

\* ColorAnalyzerTab.update_de_method: a plain assignment, nothing is returned
update_de_method(method) ==
    /\ de_method' = method
    /\ op' = [name |-> "update_de_method", arg |-> <<method>>,
              ret |-> "None", fault |-> FALSE]
    /\ UNCHANGED <<calibration_lab, is_calibrated, sample_size_cm, pixels_per_cm,
                   result, calibrated_with>>

\* both fields are assigned before the log line indexes the three components
calibrate(lab_value) ==
    /\ calibration_lab' = lab_value
    /\ is_calibrated' = TRUE
    /\ calibrated_with' = lab_value
    /\ op' = [name |-> "calibrate", arg |-> <<lab_value>>,
              ret |-> IF IsLab(lab_value) THEN "True" ELSE "False",
              fault |-> ~IsLab(lab_value)]
    /\ UNCHANGED <<sample_size_cm, pixels_per_cm, de_method, result>>

reset_calibration ==
    /\ calibration_lab' = None
    /\ is_calibrated' = FALSE
    /\ calibrated_with' = None
    /\ op' = [name |-> "reset_calibration", arg |-> <<>>, ret |-> "None", fault |-> FALSE]
    /\ UNCHANGED <<sample_size_cm, pixels_per_cm, de_method, result>>

\* an analysis that never looks at the calibration
ActiveReference_alwaysDefault(cal_lab, calibrated) == REFERENCE_LAB

\* reference = self.calibration_lab if self.is_calibrated else self.reference_lab
ActiveReference(cal_lab, calibrated) == IF calibrated THEN cal_lab ELSE REFERENCE_LAB

\* the sampling area with its far bounds left unclamped
SamplingArea_unclampedFar(width, height, size_cm, ppc) ==
    LET half_size == ((size_cm * ppc) \div 100) \div 2
    IN [x1 |-> Max(0, width \div 2 - half_size),
        y1 |-> Max(0, height \div 2 - half_size),
        x2 |-> width \div 2 + half_size,
        y2 |-> height \div 2 + half_size]

\* the bounds of the sampling area: a square of sample_size_cm * pixels_per_cm
\* pixels (size_cm is in hundredths) around the centre, each bound clamped
SamplingArea(width, height, size_cm, ppc) ==
    LET center_x == width \div 2
        center_y == height \div 2
        sample_size_pixels == (size_cm * ppc) \div 100
        half_size == sample_size_pixels \div 2
    IN [x1 |-> Max(0, center_x - half_size),
        y1 |-> Max(0, center_y - half_size),
        x2 |-> Min(width, center_x + half_size),
        y2 |-> Min(height, center_y + half_size)]

\* the dictionary analyze_frame packages for an image
\* the dictionary analyze_frame packages from what it read: the reference,
\* the method at its two reads inside calculate_color_differences, and
\* is_calibrated and de_method as read again for the fields of the result
PackagedResult(frame, reference, method_2000, method_de, calibrated, method, size_cm, ppc, t) ==
    LET current_lab_standard == convert_opencv_lab_to_standard(frame.lab_opencv)
    IN [rgb |-> frame.rgb,
        lab |-> <<RoundInt(current_lab_standard[1]), RoundInt(current_lab_standard[2]),
                  RoundInt(current_lab_standard[3])>>,
        color_diffs |-> color_differences_reads(reference, current_lab_standard,
                                                method_2000, method_de),
        sampling_area |-> SamplingArea(frame.width, frame.height, size_cm, ppc),
        sample_size_cm |-> size_cm,
        pixels_per_cm |-> ppc,
        calibrated |-> calibrated,
        de_method |-> method,
        timestamp |-> t]

\* analyze_frame with nothing changing the analyzer meanwhile
AnalysisResult(frame, cal_lab, calibrated, method, size_cm, ppc, t) ==
    PackagedResult(frame, ActiveReference(cal_lab, calibrated), method, method,
                   calibrated, method, size_cm, ppc, t)

analyze_frame(frame) ==
    /\ IF frame.kind \in {"none", "empty"}
       THEN /\ result' = None
            /\ pixels_per_cm' = pixels_per_cm
            /\ op' = [name |-> "analyze_frame", arg |-> <<frame>>,
                      ret |-> "None", fault |-> FALSE]
       ELSE IF frame.kind = "bad"
       THEN \* cv2.cvtColor raises after pixels_per_cm was assigned; except: return None
            /\ result' = None
            /\ pixels_per_cm' = calculate_pixels_per_cm(DEFAULT_DEPTH_MM)
            /\ op' = [name |-> "analyze_frame", arg |-> <<frame>>,
                      ret |-> "None", fault |-> TRUE]
       ELSE /\ pixels_per_cm' = calculate_pixels_per_cm(DEFAULT_DEPTH_MM)
            /\ result' = Some(AnalysisResult(frame, calibration_lab, is_calibrated,
                                             de_method, sample_size_cm,
                                             pixels_per_cm', now))
            /\ op' = [name |-> "analyze_frame", arg |-> <<frame>>, ret |-> "result",
                      fault |-> DiffsFault(ActiveReference(calibration_lab, is_calibrated),
                                           convert_opencv_lab_to_standard(frame.lab_opencv))]
    /\ UNCHANGED <<calibration_lab, is_calibrated, sample_size_cm, de_method,
                   calibrated_with>>

-----------------------------------------------------------------------------
(* AdvancedDataManager (the history store) *)

\* a bounded append that makes room at the wrong end
DequeAppend_dropsNewest(q, x) ==
    IF Len(q) >= HISTORY_SIZE THEN Append(SubSeq(q, 1, Len(q) - 1), x) ELSE Append(q, x)

\* collections.deque(maxlen = gb.HISTORY_SIZE).append: a full deque drops its
\* leftmost item
DequeAppend(q, x) ==
    IF Len(q) >= HISTORY_SIZE THEN Append(Tail(q), x) ELSE Append(q, x)

\* the data_point add_data_point builds from an analysis result
DataPoint(analysis_result, st) ==
    [time |-> analysis_result.timestamp - st,
     absolute_time |-> analysis_result.timestamp,
     de |-> analysis_result.color_diffs.de,
     de76 |-> analysis_result.color_diffs.de76,
     de2000 |-> analysis_result.color_diffs.de2000,
     dl |-> analysis_result.color_diffs.dl,
     da |-> analysis_result.color_diffs.da,
     db |-> analysis_result.color_diffs.db,
     dc |-> analysis_result.color_diffs.dc,
     dh |-> analysis_result.color_diffs.dh,
     lab |-> analysis_result.lab,
     rgb |-> analysis_result.rgb,
     calibrated |-> analysis_result.calibrated,
     sample_size_cm |-> analysis_result.sample_size_cm,
     de_method |-> analysis_result.de_method]

\* the dictionary save_history hands to np.save
StoreSnapshot(st, h) ==
    [keys |-> {"start_time", "save_time", "data", "version", "settings"},
     start_time |-> st, data |-> h, times |-> <<>>, values |-> <<>>]

\* save_history(): what it returns, and what it leaves in the file; disk_ok
\* tells whether np.save succeeds.  An empty store returns True without writing.
SaveReturns(h, disk_ok) ==
    IF Len(h) = 0 THEN "True" ELSE IF disk_ok THEN "True" ELSE "False"

SaveWrites(h, st, f, disk_ok) ==
    IF Len(h) = 0 THEN f ELSE IF disk_ok THEN Some(StoreSnapshot(st, h)) ELSE f

SavedEntries(h, disk_ok, before) ==
    IF SaveReturns(h, disk_ok) = "True" THEN Some(h) ELSE before

\* a rebase that adds the offset
Rebase_adds(data_point, time_offset) ==
    [data_point EXCEPT !.time = data_point.time + time_offset]

\* adjusted_point['time'] -= time_offset
Rebase(data_point, time_offset) ==
    [data_point EXCEPT !.time = data_point.time - time_offset]

\* adjusted_point['time'] can be read: the item is a dictionary with that key
IsEntry(data_point) == "time" \in DOMAIN data_point

RECURSIVE AppendAll(_, _, _)
\* for data_point in loaded_data: self.history_data.append(adjusted_point);
\* an item that is no entry raises, which ends the loop
AppendAll(h, loaded_data, time_offset) ==
    IF loaded_data = <<>> THEN h
    ELSE IF ~IsEntry(Head(loaded_data)) THEN h
    ELSE AppendAll(DequeAppend(h, Rebase(Head(loaded_data), time_offset)),
                   Tail(loaded_data), time_offset)

\* no file, a file np.load cannot read (it has no keys at all), a dictionary
\* without 'data', or an item that raised: False
LoadReturns(f) ==
    IF f = None THEN "False"
    ELSE IF "data" \notin f[1].keys THEN "False"
    ELSE IF \E i \in 1..Len(f[1].data) : ~IsEntry(f[1].data[i]) THEN "False"
    ELSE "True"

LoadedHistory(h, st, f) ==
    IF f # None /\ "data" \in f[1].keys
    THEN AppendAll(h, f[1].data, st - f[1].start_time)
    ELSE h

\* a store that saves once the counter has passed the interval
AutoSaveDue_late(counter) == counter > HISTORY_AUTO_SAVE_INTERVAL

\* if self.save_counter >= gb.HISTORY_AUTO_SAVE_INTERVAL, the counter having
\* been incremented for this append
AutoSaveDue(counter) == counter >= HISTORY_AUTO_SAVE_INTERVAL

\* fault of an add: the exception save_history caught inside when the file
\* could not be written
add_data_point(analysis_result, disk_ok) ==
    IF analysis_result = None
    THEN /\ op' = [name |-> "add", arg |-> analysis_result, ret |-> "False",
                   fault |-> FALSE]
         /\ UNCHANGED <<history_data, start_time, save_counter, stats_cache_time,
                        stats_cache, stats_out, last_saved, file>>
    ELSE LET data_point == DataPoint(analysis_result[1], start_time)
             appended == DequeAppend(history_data, data_point)
             auto_save == AutoSaveDue(save_counter + 1)
         IN /\ history_data' = appended
            /\ IF auto_save
               THEN /\ file' = SaveWrites(appended, start_time, file, disk_ok)
                    /\ last_saved' = SavedEntries(appended, disk_ok, last_saved)
                    /\ save_counter' = 0
               ELSE /\ file' = file
                    /\ last_saved' = last_saved
                    /\ save_counter' = save_counter + 1
            /\ stats_cache_time' = 0
            /\ start_time' = start_time
            /\ UNCHANGED <<stats_cache, stats_out>>
            /\ op' = [name |-> "add", arg |-> analysis_result, ret |-> "True",
                      fault |-> auto_save /\ ~disk_ok]

save_history(disk_ok) ==
    /\ file' = SaveWrites(history_data, start_time, file, disk_ok)
    /\ last_saved' = SavedEntries(history_data, disk_ok, last_saved)
    /\ op' = [name |-> "save", arg |-> <<>>, ret |-> SaveReturns(history_data, disk_ok),
              fault |-> FALSE]
    /\ UNCHANGED <<history_data, start_time, save_counter, stats_cache_time,
                   stats_cache, stats_out>>

load_history ==
    /\ history_data' = LoadedHistory(history_data, start_time, file)
    /\ op' = [name |-> "load", arg |-> <<Len(history_data)>>, ret |-> LoadReturns(file),
              fault |-> FALSE]
    /\ UNCHANGED <<start_time, save_counter, stats_cache_time, stats_cache, stats_out,
                   last_saved, file>>

\* clear_history without the reset of the statistics cache
clear_history_keepsCache ==
    /\ history_data' = <<>>
    /\ start_time' = now
    /\ save_counter' = 0
    /\ op' = [name |-> "clear", arg |-> <<>>, ret |-> "None", fault |-> FALSE]
    /\ UNCHANGED <<stats_cache, stats_cache_time, stats_out, last_saved, file>>

clear_history ==
    /\ history_data' = <<>>
    /\ start_time' = now
    /\ save_counter' = 0
    /\ stats_cache' = None
    /\ stats_cache_time' = 0
    /\ op' = [name |-> "clear", arg |-> <<>>, ret |-> "None", fault |-> FALSE]
    /\ UNCHANGED <<stats_out, last_saved, file>>

\* AdvancedDataManager(): a new store, which loads the history file
new_data_manager ==
    /\ history_data' = LoadedHistory(<<>>, now, file)
    /\ start_time' = now
    /\ save_counter' = 0
    /\ stats_cache' = None
    /\ stats_cache_time' = 0
    /\ op' = [name |-> "load", arg |-> <<0>>, ret |-> LoadReturns(file), fault |-> FALSE]
    /\ UNCHANGED <<stats_out, last_saved, file>>

\* thresholds of the alert counts, in tenths
WARNING_THRESHOLD_DE == 30
CRITICAL_THRESHOLD_DE == 50

\* age below which get_statistics answers from its cache, in clock ticks (the
\* program compares with 5 seconds)
StatsCacheTicks == 2

RECURSIVE SeqMin(_)
SeqMin(q) == IF Len(q) = 1 THEN q[1] ELSE Min(q[1], SeqMin(Tail(q)))

RECURSIVE SeqMax(_)
SeqMax(q) == IF Len(q) = 1 THEN q[1] ELSE Max(q[1], SeqMax(Tail(q)))

\* the dictionary get_statistics computes from a store that is not empty; of
\* the means and deviations only the extremes and counts they rest on are kept
ComputeStatistics(h) ==
    LET de_values == [i \in 1..Len(h) |-> h[i].de]
    IN [count |-> Len(h),
        time_span |-> IF Len(h) > 1 THEN h[Len(h)].time - h[1].time ELSE 0,
        de_min |-> SeqMin(de_values),
        de_max |-> SeqMax(de_values),
        warning_count |-> Cardinality({i \in 1..Len(h) : Abs(de_values[i]) > WARNING_THRESHOLD_DE}),
        critical_count |-> Cardinality({i \in 1..Len(h) : Abs(de_values[i]) > CRITICAL_THRESHOLD_DE})]

\* not refresh and self.stats_cache_time > 0 and (current_time - self.stats_cache_time) < 5
CacheFresh(refresh, cache_time, current_time) ==
    ~refresh /\ cache_time > 0 /\ current_time - cache_time < StatsCacheTicks

\* get_statistics(refresh) called at current_time
get_statistics(refresh, current_time) ==
    /\ IF CacheFresh(refresh, stats_cache_time, current_time)
       THEN /\ stats_out' = stats_cache
            /\ UNCHANGED <<stats_cache, stats_cache_time>>
       ELSE IF Len(history_data) = 0
       THEN /\ stats_out' = None
            /\ UNCHANGED <<stats_cache, stats_cache_time>>
       ELSE /\ stats_out' = Some(ComputeStatistics(history_data))
            /\ stats_cache' = Some(ComputeStatistics(history_data))
            /\ stats_cache_time' = current_time
    /\ op' = [name |-> "get_statistics", arg |-> <<refresh>>, ret |-> "stats",
              fault |-> FALSE]
    /\ UNCHANGED <<history_data, start_time, save_counter, last_saved, file>>

-----------------------------------------------------------------------------
(* Quality classifier (glob_basler_cmd_delta_2v.py) *)

\* the chain of comparisons with exclusive bounds
get_quality_grade_exclusive(de_value) ==
    LET abs_de == Abs(de_value)
    IN IF abs_de < QUALITY_GRADE_EXCELLENT THEN "excellent"
       ELSE IF abs_de < QUALITY_GRADE_GOOD THEN "good"
       ELSE IF abs_de < QUALITY_GRADE_ACCEPTABLE THEN "acceptable"
       ELSE IF abs_de < QUALITY_GRADE_DEFECTIVE THEN "defective"
       ELSE "out_of_range"

get_quality_grade(de_value) ==
    LET abs_de == Abs(de_value)
    IN IF abs_de <= QUALITY_GRADE_EXCELLENT THEN "excellent"
       ELSE IF abs_de <= QUALITY_GRADE_GOOD THEN "good"
       ELSE IF abs_de <= QUALITY_GRADE_ACCEPTABLE THEN "acceptable"
       ELSE IF abs_de <= QUALITY_GRADE_DEFECTIVE THEN "defective"
       ELSE "out_of_range"

-----------------------------------------------------------------------------
(* DeltaEGraph persistence and the GUI handlers (gui_basler_cmd_delta_2.1v.py) *)

\* the dictionary DeltaEGraph.save_history hands to np.save, to the same
\* gb.HISTORY_FILE the data manager uses
GraphSnapshot(st, times, values) ==
    [keys |-> {"start_time", "times", "values"},
     start_time |-> st, data |-> <<>>, times |-> times, values |-> values]

\* DeltaEGraph.save_history writes whatever it holds, an empty graph included
GraphSaveWrites(st, times, values, f, disk_ok) ==
    IF disk_ok THEN Some(GraphSnapshot(st, times, values)) ELSE f

RECURSIVE AppendShifted(_, _, _)
\* for t, v in zip(saved_times, saved_values): self.times.append(t - time_offset)
AppendShifted(q, saved_times, time_offset) ==
    IF saved_times = <<>> THEN q
    ELSE AppendShifted(DequeAppend(q, Head(saved_times) - time_offset),
                       Tail(saved_times), time_offset)

RECURSIVE AppendEach(_, _)
AppendEach(q, saved_values) ==
    IF saved_values = <<>> THEN q
    ELSE AppendEach(DequeAppend(q, Head(saved_values)), Tail(saved_values))

\* DeltaEGraph.load_history reads something when the file has both lists non-empty
GraphLoads(f) ==
    /\ f # None
    /\ Len(f[1].times) > 0
    /\ Len(f[1].values) > 0

GraphLoadedTimes(st, f) ==
    IF GraphLoads(f) THEN AppendShifted(<<>>, f[1].times, st - f[1].start_time) ELSE <<>>

GraphLoadedValues(f) ==
    IF GraphLoads(f) THEN AppendEach(<<>>, f[1].values) ELSE <<>>

\* ColorAnalyzerTab.process_color_analysis for a result that is not None:
\* data_manager.add_data_point, then de_graph.add_point, which saves the graph
\* whenever its length is a multiple of the auto-save interval
\* DeltaEGraph.add_point returns whether the value grades as defective or
\* worse; the value is in tenths and a nan passes no comparison of the chain
add_point_returns(de_value) ==
    \/ de_value = NaN
    \/ get_quality_grade(de_value * 1000) \in {"defective", "out_of_range"}

\* a cooldown test that lets a warning through when exactly the cooldown has passed
CooldownOver_atLeast(current_time, last) == current_time - last >= WARNING_COOLDOWN

\* current_time - self.last_warning_time > self.warning_cooldown
CooldownOver(current_time, last) == current_time - last > WARNING_COOLDOWN

\* gb.SHOW_WARNING_POPUP is True: show_warning_message is called for a value
\* add_point flags once the cooldown is over
WarningShown(de_value, current_time, last) ==
    add_point_returns(de_value) /\ CooldownOver(current_time, last)

\* current_time is the handler's reading of time.time(), in seconds
process_color_analysis(analysis_result, store_disk_ok, graph_disk_ok, current_time) ==
    LET data_point == DataPoint(analysis_result, start_time)
        appended == DequeAppend(history_data, data_point)
        auto_save == AutoSaveDue(save_counter + 1)
        file1 == IF auto_save
                 THEN SaveWrites(appended, start_time, file, store_disk_ok)
                 ELSE file
        times1 == DequeAppend(graph_times, now' - graph_start)
        values1 == DequeAppend(graph_values, analysis_result.color_diffs.de)
        graph_save == Len(values1) % HISTORY_AUTO_SAVE_INTERVAL = 0
    IN /\ history_data' = appended
       /\ save_counter' = IF auto_save THEN 0 ELSE save_counter + 1
       /\ last_saved' = IF auto_save
                        THEN SavedEntries(appended, store_disk_ok, last_saved)
                        ELSE last_saved
       /\ stats_cache_time' = 0
       /\ start_time' = start_time
       /\ UNCHANGED <<stats_cache, stats_out>>
       /\ graph_times' = times1
       /\ graph_values' = values1
       /\ graph_start' = graph_start
       /\ file' = IF graph_save
                  THEN GraphSaveWrites(graph_start, times1, values1, file1, graph_disk_ok)
                  ELSE file1
       /\ IF WarningShown(analysis_result.color_diffs.de, current_time, last_warning_time)
          THEN /\ warnings' = Append(warnings, [time |-> current_time,
                                                 de |-> analysis_result.color_diffs.de])
               /\ last_warning_time' = current_time
          ELSE UNCHANGED <<warnings, last_warning_time>>
       /\ op' = [name |-> "process", arg |-> <<analysis_result>>, ret |-> "None",
                 fault |-> FALSE]

\* MainWindow.closeEvent: data_manager.save_history(), then
\* de_graph.save_history(); the returned flag is that of the data manager's save
closeEvent(store_disk_ok, graph_disk_ok) ==
    LET file1 == SaveWrites(history_data, start_time, file, store_disk_ok)
    IN /\ file' = GraphSaveWrites(graph_start, graph_times, graph_values, file1,
                                  graph_disk_ok)
       /\ last_saved' = SavedEntries(history_data, store_disk_ok, last_saved)
       /\ pc' = "closed"
       /\ op' = [name |-> "close", arg |-> <<>>,
                 ret |-> SaveReturns(history_data, store_disk_ok), fault |-> FALSE]
       /\ UNCHANGED <<history_data, start_time, save_counter, stats_cache_time,
                      stats_cache, stats_out, graph_times, graph_values, graph_start>>

\* the next session: ColorAnalyzerTab() builds a new analyzer, a new data
\* manager (which loads the history file) and a new graph (which loads it too)
startup ==
    /\ pc' = "running"
    /\ calibration_lab' = None
    /\ is_calibrated' = FALSE
    /\ calibrated_with' = None
    /\ sample_size_cm' = DEFAULT_SAMPLE_SIZE_CM
    /\ pixels_per_cm' = INIT_PIXELS_PER_CM
    /\ de_method' = DEFAULT_DE_METHOD
    /\ result' = None
    /\ history_data' = LoadedHistory(<<>>, now, file)
    /\ start_time' = now
    /\ save_counter' = 0
    /\ stats_cache' = None
    /\ stats_cache_time' = 0
    /\ stats_out' = None
    /\ graph_start' = now
    /\ graph_times' = GraphLoadedTimes(now, file)
    /\ graph_values' = GraphLoadedValues(file)
    /\ last_warning_time' = 0
    /\ op' = [name |-> "startup", arg |-> <<>>, ret |-> LoadReturns(file), fault |-> FALSE]
    /\ UNCHANGED <<last_saved, file, warnings>>

\* ColorAnalyzerTab.reset_history, confirmed by the user
reset_history ==
    /\ history_data' = <<>>
    /\ start_time' = now
    /\ save_counter' = 0
    /\ stats_cache' = None
    /\ stats_cache_time' = 0
    /\ stats_out' = stats_out
    /\ graph_times' = <<>>
    /\ graph_values' = <<>>
    /\ op' = [name |-> "reset", arg |-> <<>>, ret |-> "None", fault |-> FALSE]
    /\ UNCHANGED <<graph_start, last_saved, file>>

-----------------------------------------------------------------------------
(* Initial state: the objects as their constructors leave them, no history file *)

\* analyze_frame has read nothing yet
NoLocals == [L |-> 0, flag |-> FALSE, reference |-> None, method_2000 |-> "",
             method_de |-> "", calibrated |-> FALSE]

\* the state after construction, the clock at t and the engine's inputs drawn;
\* in_loop tells whether the worker thread has reached its loop (camera open,
\* grabbing, running set) or has just been started
InitState(t, lab1, lab2, in_loop) ==
    /\ now = t
    /\ calibration_lab = None
    /\ is_calibrated = FALSE
    /\ sample_size_cm = DEFAULT_SAMPLE_SIZE_CM
    /\ pixels_per_cm = INIT_PIXELS_PER_CM
    /\ de_method = DEFAULT_DE_METHOD
    /\ result = None
    /\ history_data = <<>>
    /\ start_time = t
    /\ save_counter = 0
    /\ stats_cache_time = 0
    /\ file = None
    /\ graph_times = <<>>
    /\ graph_values = <<>>
    /\ graph_start = t
    /\ pc = "running"
    /\ grade_in = 0
    /\ grade_out = "none"
    /\ op = NoOp
    /\ calibrated_with = None
    /\ last_saved = None
    /\ running = in_loop
    /\ error_count = 0
    /\ frame_count = 0
    /\ sampling_interval = SAMPLING_INTERVAL
    /\ last_sample_time = 0
    /\ signal_queue = <<>>
    /\ stats_cache = None
    /\ stats_out = None
    /\ de_lab1 = lab1
    /\ de_lab2 = lab2
    /\ de_out = None
    /\ produced = <<>>
    /\ last_warning_time = 0
    /\ warnings = <<>>
    /\ csv_out = None
    /\ recent_out = None
    /\ thread_pc = IF in_loop THEN "loop_test" ELSE "initialize_camera"
    /\ stop_pc = "idle"
    /\ is_connected = in_loop
    /\ is_grabbing = in_loop
    /\ an_pc = "idle"
    /\ an_local = NoLocals
    /\ ui_pc = "idle"

InitWith(t, lab1, lab2) == InitState(t, lab1, lab2, TRUE)

InitAt(t) == InitWith(t, REFERENCE_LAB, REFERENCE_LAB)

\* the clock of the sessions that are not about the worker starts at 0
Init == InitAt(0)

-----------------------------------------------------------------------------
(* The analyzer driven through its interface *)

notAnalyzerVars == <<now, history_data, start_time, save_counter, stats_cache_time,
                     stats_cache, stats_out,
                     last_saved, file, graph_times, graph_values, graph_start, pc,
                     grade_in, grade_out, workerVars, engineVars, warningVars, queryVars, threadVars, raceVars>>

SetSampleSize == \E size_cm \in SizeInputs : set_sample_size(size_cm) /\ UNCHANGED notAnalyzerVars
UpdateDeMethod == \E method \in MethodInputs : update_de_method(method) /\ UNCHANGED notAnalyzerVars
Calibrate == \E lab_value \in CalibrationInputs : calibrate(lab_value) /\ UNCHANGED notAnalyzerVars
ResetCalibration == reset_calibration /\ UNCHANGED notAnalyzerVars
AnalyzeFrame == \E frame \in Frames : analyze_frame(frame) /\ UNCHANGED notAnalyzerVars

NextAnalyzer ==
    \/ SetSampleSize
    \/ UpdateDeMethod
    \/ Calibrate
    \/ ResetCalibration
    \/ AnalyzeFrame

SpecAnalyzer == Init /\ [][NextAnalyzer]_vars

-----------------------------------------------------------------------------
(* The history store driven through its interface by one producer *)

\* the analysis results handed to add_data_point: what the analyzer returns
\* for the frame grabbed at time t against the default reference; the scene
\* alternates between two greys, so consecutive results differ
SceneL(t) == IF t % 2 = 1 THEN 56 ELSE 53

ResultOf(L, method, t) ==
    AnalysisResult(ImageFrame(L), None, FALSE, method, DEFAULT_SAMPLE_SIZE_CM,
                   calculate_pixels_per_cm(DEFAULT_DEPTH_MM), t)

notStoreVars == <<calibration_lab, is_calibrated, sample_size_cm, pixels_per_cm,
                  de_method, result, calibrated_with, graph_times, graph_values,
                  graph_start, pc, grade_in, grade_out, workerVars, engineVars, warningVars, queryVars, threadVars, raceVars>>

\* the producer delivers the result of the next frame, analysed one clock
\* tick after the previous one
AddDataPoint ==
    \E disk_ok \in BOOLEAN :
        /\ now < MaxTime
        /\ now' = now + 1
        /\ add_data_point(Some(ResultOf(SceneL(now'), DE_METHOD_CIE2000, now')), disk_ok)
        /\ UNCHANGED notStoreVars

AddNothing == add_data_point(None, TRUE) /\ UNCHANGED <<now>> /\ UNCHANGED notStoreVars

SaveHistory == \E disk_ok \in BOOLEAN :
                  save_history(disk_ok) /\ UNCHANGED <<now>> /\ UNCHANGED notStoreVars

LoadHistory == load_history /\ UNCHANGED <<now>> /\ UNCHANGED notStoreVars

ClearHistory == clear_history /\ UNCHANGED <<now>> /\ UNCHANGED notStoreVars

NewDataManager == new_data_manager /\ UNCHANGED <<now>> /\ UNCHANGED notStoreVars

NextStore ==
    \/ AddDataPoint
    \/ AddNothing
    \/ SaveHistory
    \/ LoadHistory
    \/ ClearHistory
    \/ NewDataManager

SpecStore == Init /\ [][NextStore]_vars

-----------------------------------------------------------------------------
(* The history store on a medium that can lose or damage the snapshot *)

\* bytes np.load cannot read
UnreadableFile ==
    [keys |-> {}, start_time |-> 0, data |-> <<>>, times |-> <<>>, values |-> <<>>]

\* an item of the 'data' list that is not an entry: it has no 'time'
MalformedEntry == [absolute_time |-> 0]

\* the snapshot with item k of its 'data' list damaged
DamagedAt(f, k) ==
    Some([f[1] EXCEPT !.data = [i \in 1..Len(f[1].data) |->
                                    IF i = k THEN MalformedEntry ELSE f[1].data[i]]])

\* the file is deleted, overwritten with bytes that are no snapshot, or one
\* item of its entry list is damaged
DamageFile ==
    /\ file # None
    /\ \/ file' = None
       \/ file' = Some(UnreadableFile)
       \/ /\ "data" \in file[1].keys
          /\ \E k \in 1..Len(file[1].data) :
                /\ IsEntry(file[1].data[k])
                /\ file' = DamagedAt(file, k)
    /\ UNCHANGED <<now, history_data, start_time, save_counter, stats_cache_time,
                   stats_cache, stats_out, last_saved, op>>
    /\ UNCHANGED notStoreVars

NextMedium ==
    \/ AddDataPoint
    \/ LoadHistory
    \/ ClearHistory
    \/ NewDataManager
    \/ DamageFile

SpecMedium == Init /\ [][NextMedium]_vars

-----------------------------------------------------------------------------
(* The history store with a reader of its statistics *)

\* the status timer, or a caller that forces a refresh, asks for the
\* statistics, at once or one tick later
GetStatistics ==
    \E refresh \in BOOLEAN, elapsed \in {0, 1} :
        /\ now + elapsed <= MaxTime
        /\ now' = now + elapsed
        /\ get_statistics(refresh, now')
        /\ UNCHANGED notStoreVars

NextStats ==
    \/ AddDataPoint
    \/ LoadHistory
    \/ ClearHistory
    \/ GetStatistics

SpecStats == Init /\ [][NextStats]_vars

-----------------------------------------------------------------------------
(* Claims about the history store (checked under SpecStore) *)

\* C1: the store never holds more than HISTORY_SIZE entries, and an add to a
\* full store removes exactly the oldest entry, keeps the others in their
\* order and places the new entry last.
C1_FixedCapacityFifo ==
    /\ [](Len(history_data) <= HISTORY_SIZE)
    /\ [][(op'.name = "add" /\ op'.ret = "True" /\ Len(history_data) = HISTORY_SIZE)
          => /\ Len(history_data') = HISTORY_SIZE
             /\ \A i \in 1..(HISTORY_SIZE - 1) : history_data'[i] = history_data[i + 1]
             /\ history_data'[HISTORY_SIZE].absolute_time = op'.arg[1].timestamp
             /\ history_data'[HISTORY_SIZE].de = op'.arg[1].color_diffs.de]_vars

\* more results than the capacity were added to one store, which holds the
\* last HISTORY_SIZE of them
C1_Witness ==
    /\ op.name = "add"
    /\ start_time = 0
    /\ now > HISTORY_SIZE
    /\ Len(history_data) = HISTORY_SIZE
    /\ \A i \in 1..HISTORY_SIZE :
          history_data[i].absolute_time = now - HISTORY_SIZE + i

\* C2: in every reachable state the relative times of the stored entries are
\* non-decreasing from the oldest entry to the newest.
C2_TimesNonDecreasing ==
    \A i \in 1..(Len(history_data) - 1) :
        history_data[i].time <= history_data[i + 1].time

\* C3: after save() returned True, load() on a store that holds no entries
\* leaves it with as many entries as the saved store had, with the same
\* delta-E values in the same order and times shifted by one common offset.
C3_RoundTrip ==
    (op.name = "load" /\ op.arg[1] = 0 /\ last_saved # None)
    => LET saved == last_saved[1]
       IN /\ Len(history_data) = Len(saved)
          /\ \A i \in 1..Len(saved) :
                /\ history_data[i].de = saved[i].de
                /\ history_data[i].de76 = saved[i].de76
                /\ history_data[i].de2000 = saved[i].de2000
                /\ history_data[i].time - saved[i].time
                     = history_data[1].time - saved[1].time

\* C17: a load that fails (no snapshot, an unreadable or a malformed one)
\* returns False and leaves the store with exactly the entries it held before
\* the call (none, for the load a new store does).
C17_FailedLoadKeepsEntries ==
    [][(op'.name = "load" /\ op'.ret = "False")
       => \/ history_data' = history_data
          \/ op'.arg[1] = 0 /\ history_data' = <<>>]_vars

\* C18: every stored entry, added in this session or restored by a load, has
\* relative time = absolute_time - the store's start time.
C18_RelativeTimeRebased ==
    \A i \in 1..Len(history_data) :
        history_data[i].time = history_data[i].absolute_time - start_time

\* a load restored entries of a snapshot written under another start time
C18_Witness ==
    /\ op.name = "load"
    /\ op.ret = "True"
    /\ file # None
    /\ file[1].start_time # start_time
    /\ Len(history_data) >= 2
    /\ history_data[1].time < 0

-----------------------------------------------------------------------------
(* Claims about the statistics (checked under SpecStats) *)

\* C16: get_statistics returns the empty result whenever the store holds no
\* entries, forced or not; a cached result is never returned for an empty store.
C16_EmptyStoreEmptyStatistics ==
    [][(op'.name = "get_statistics" /\ Len(history_data) = 0)
       => (stats_out' = None /\ Len(history_data') = 0)]_vars

\* statistics were asked for, not forced, of a store that was cleared after
\* its entries had been saved
C16_Witness ==
    /\ op.name = "get_statistics"
    /\ op.arg[1] = FALSE
    /\ Len(history_data) = 0
    /\ file # None
    /\ stats_out = None

-----------------------------------------------------------------------------
(* Claims about the analyzer (checked under SpecAnalyzer) *)

\* C6: set_sample_size(cm) returns False and changes no analyzer field when cm
\* is outside [0.1, 5.0]; inside the closed interval it stores cm and returns
\* True; the stored sample size is always within [0.1, 5.0].
C6_SetSampleSize ==
    /\ [](10 <= sample_size_cm /\ sample_size_cm <= 500)
    /\ [][op'.name = "set_sample_size"
          => LET cm == op'.arg[1]
             IN IF 10 <= cm /\ cm <= 500
                THEN sample_size_cm' = cm /\ op'.ret = "True"
                ELSE /\ op'.ret = "False"
                     /\ UNCHANGED <<sample_size_cm, calibration_lab, is_calibrated,
                                    pixels_per_cm, de_method>>]_vars

\* the upper end of the interval was accepted
C6_Witness ==
    /\ op.name = "set_sample_size"
    /\ op.arg[1] = 500
    /\ op.ret = "True"
    /\ sample_size_cm = 500

\* C7: setting the delta-E method to a name that is neither CIE76 nor CIE2000
\* leaves the active method unchanged and signals failure to the caller.
C7_InvalidMethodRejected ==
    [][(op'.name = "update_de_method"
        /\ op'.arg[1] \notin {DE_METHOD_CIE76, DE_METHOD_CIE2000})
       => (de_method' = de_method /\ op'.ret = "False")]_vars

\* C8: an analysis computes its differences against the LAB value of the most
\* recent calibrate() if one is active, else against the default reference
\* (50, 0, 0); calibrate replaces the earlier calibration, reset_calibration
\* makes the default active again.
C8_OneActiveReference ==
    (op.name = "analyze_frame" /\ result # None
       /\ (calibrated_with = None \/ IsLab(calibrated_with)))
    => LET sample == convert_opencv_lab_to_standard(op.arg[1].lab_opencv)
           expected == IF calibrated_with = None THEN <<50, 0, 0>> ELSE calibrated_with
       IN /\ result[1].color_diffs
               = calculate_color_differences(expected, sample, de_method)
          /\ result[1].color_diffs.dl = 10 * (sample[1] - expected[1])
          /\ result[1].calibrated = (calibrated_with # None)

\* a frame of L* = 53 analysed against the calibration (56, 0, 0)
C8_Witness ==
    /\ op.name = "analyze_frame"
    /\ result # None
    /\ calibrated_with = <<56, 0, 0>>
    /\ result[1].color_diffs.dl = -30

\* C9: every bundle carries the CIE76 value in de76 and the CIEDE2000 value in
\* de2000 whichever method is active; de is de2000 under CIE2000, else de76.
C9_BothValuesCarried ==
    (op.name = "analyze_frame" /\ result # None /\ ~op.fault)
    => LET sample == convert_opencv_lab_to_standard(op.arg[1].lab_opencv)
           reference == ActiveReference(calibration_lab, is_calibrated)
           d == result[1].color_diffs
       IN /\ d.de76 = RoundReal(calculate_delta_e_76(reference, sample))
          /\ d.de2000 = RoundReal(calculate_delta_e_2000(reference, sample))
          /\ d.de = IF de_method = DE_METHOD_CIE2000 THEN d.de2000 ELSE d.de76

\* C10: analyze_frame returns None without changing the reference, method or
\* sample size when the frame is absent or has zero area, and every fault
\* inside the analysis ends in a None result.
C10_NullOnDegenerateOrFault ==
    [][op'.name = "analyze_frame"
       => /\ (op'.arg[1].kind \in {"none", "empty"})
              => /\ result' = None
                 /\ UNCHANGED <<calibration_lab, is_calibrated, de_method,
                                sample_size_cm>>
          /\ op'.fault => result' = None]_vars

\* C11: the sampling rectangle of every result satisfies 0 <= x1 <= x2 <= W
\* and 0 <= y1 <= y2 <= H for the frame's width W and height H, and it is the
\* whole frame (0,0)-(W,H) when the requested side exceeds both W and H.
C11_SamplingRectangleClamped ==
    (op.name = "analyze_frame" /\ result # None)
    => LET W == op.arg[1].width
           H == op.arg[1].height
           side == (sample_size_cm * pixels_per_cm) \div 100
           r == result[1].sampling_area
       IN /\ 0 <= r.x1 /\ r.x1 <= r.x2 /\ r.x2 <= W
          /\ 0 <= r.y1 /\ r.y1 <= r.y2 /\ r.y2 <= H
          /\ (side > W /\ side > H) => (r.x1 = 0 /\ r.y1 = 0 /\ r.x2 = W /\ r.y2 = H)

\* a sample of 5.0 cm (150 pixels) on a frame of 100 x 100 is the whole frame
C11_Witness ==
    /\ op.name = "analyze_frame"
    /\ result # None
    /\ op.arg[1].width = 100 /\ op.arg[1].height = 100
    /\ sample_size_cm = 500
    /\ result[1].sampling_area = [x1 |-> 0, y1 |-> 0, x2 |-> 100, y2 |-> 100]

-----------------------------------------------------------------------------
(* The application: results arrive, the window is closed, the next session starts *)

ProcessColorAnalysis ==
    \E store_disk_ok \in BOOLEAN, graph_disk_ok \in BOOLEAN :
        /\ pc = "running"
        /\ now < MaxTime
        /\ now' = now + 1
        /\ process_color_analysis(
               AnalysisResult(ImageFrame(SceneL(now')), calibration_lab, is_calibrated,
                              de_method, sample_size_cm,
                              calculate_pixels_per_cm(DEFAULT_DEPTH_MM), now'),
               store_disk_ok, graph_disk_ok, now')
        /\ UNCHANGED <<calibration_lab, is_calibrated, sample_size_cm, pixels_per_cm,
                       de_method, result, calibrated_with, pc, grade_in, grade_out,
                       workerVars, engineVars, queryVars, threadVars, raceVars>>

CloseEvent ==
    \E store_disk_ok \in BOOLEAN, graph_disk_ok \in BOOLEAN :
        /\ pc = "running"
        /\ closeEvent(store_disk_ok, graph_disk_ok)
        /\ UNCHANGED <<now, calibration_lab, is_calibrated, sample_size_cm,
                       pixels_per_cm, de_method, result, calibrated_with,
                       grade_in, grade_out, workerVars, engineVars, warningVars, queryVars, threadVars, raceVars>>

Startup ==
    /\ pc = "closed"
    /\ startup
    /\ UNCHANGED <<now, grade_in, grade_out, workerVars, engineVars, queryVars, threadVars, raceVars>>

ResetHistory ==
    /\ pc = "running"
    /\ reset_history
    /\ UNCHANGED <<now, calibration_lab, is_calibrated, sample_size_cm, pixels_per_cm,
                   de_method, result, calibrated_with, pc, grade_in, grade_out,
                   workerVars, engineVars, warningVars, queryVars, threadVars, raceVars>>

NextApp ==
    \/ ProcessColorAnalysis
    \/ CloseEvent
    \/ Startup
    \/ ResetHistory

SpecApp == Init /\ [][NextApp]_vars

-----------------------------------------------------------------------------
(* The classifier applied to one value after another *)

\* the values classified are k * 0.25 and its two neighbours at distance
\* 0.0001, for |k| up to this bound
MaxGradeStep == 24

GradeInputs == {k * 2500 + d : k \in (-MaxGradeStep)..MaxGradeStep, d \in {-1, 0, 1}}

Classify ==
    /\ grade_out = "none"
    /\ grade_out' = get_quality_grade(grade_in)
    /\ UNCHANGED <<now, calibration_lab, is_calibrated, sample_size_cm, pixels_per_cm,
                   de_method, result, history_data, start_time, save_counter,
                   stats_cache_time, file, graph_times, graph_values, graph_start, pc,
                   grade_in, op, calibrated_with, last_saved, stats_cache, stats_out,
                   workerVars, engineVars, warningVars, queryVars, threadVars, raceVars>>

NextValue ==
    /\ grade_out # "none"
    /\ grade_in' \in GradeInputs
    /\ grade_out' = "none"
    /\ UNCHANGED <<now, calibration_lab, is_calibrated, sample_size_cm, pixels_per_cm,
                   de_method, result, history_data, start_time, save_counter,
                   stats_cache_time, file, graph_times, graph_values, graph_start, pc,
                   op, calibrated_with, last_saved, stats_cache, stats_out,
                   workerVars, engineVars, warningVars, queryVars, threadVars, raceVars>>

NextGrade ==
    \/ Classify
    \/ NextValue

SpecGrade == Init /\ [][NextGrade]_vars

-----------------------------------------------------------------------------
(* Claims about shutdown (SpecApp) and about the classifier (SpecGrade) *)

\* the entry list a data manager would find in the snapshot
SnapshotEntries(f) == IF f = None THEN <<>> ELSE f[1].data

SameDeltaE(h1, h2) ==
    /\ Len(h1) = Len(h2)
    /\ \A i \in 1..Len(h1) :
          /\ h1[i].de = h2[i].de
          /\ h1[i].de76 = h2[i].de76
          /\ h1[i].de2000 = h2[i].de2000

\* C4: after the application has shut down with its final save done, the
\* snapshot on the medium contains the store's full ordered entry list, and the
\* store of the next session restores those entries.
C4_ShutdownFlushesHistory ==
    /\ []((op.name = "close" /\ op.ret = "True")
           => SnapshotEntries(file) = history_data)
    /\ [][(op.name = "close" /\ op.ret = "True" /\ op'.name = "startup")
           => SameDeltaE(history_data', history_data)]_vars

Severity(grade) ==
    CASE grade = "excellent" -> 0
      [] grade = "good" -> 1
      [] grade = "acceptable" -> 2
      [] grade = "defective" -> 3
      [] grade = "out_of_range" -> 4

\* C5: grade(de) depends on |de| only and is excellent iff |de| <= 1.0, good
\* iff 1.0 < |de| <= 2.0, acceptable iff 2.0 < |de| <= 3.0, defective iff
\* 3.0 < |de| <= 5.0, out_of_range iff |de| > 5.0; grade(de) = grade(-de) and
\* a larger |de| never gets a less severe grade.
C5_GradeThresholds ==
    grade_out # "none"
    => LET a == Abs(grade_in)
       IN /\ grade_out \in {"excellent", "good", "acceptable", "defective", "out_of_range"}
          /\ (grade_out = "excellent") <=> (a <= 10000)
          /\ (grade_out = "good") <=> (10000 < a /\ a <= 20000)
          /\ (grade_out = "acceptable") <=> (20000 < a /\ a <= 30000)
          /\ (grade_out = "defective") <=> (30000 < a /\ a <= 50000)
          /\ (grade_out = "out_of_range") <=> (a > 50000)
          /\ get_quality_grade(-grade_in) = grade_out
          /\ \A d \in GradeInputs :
                Abs(d) >= a => Severity(get_quality_grade(d)) >= Severity(grade_out)

\* the boundary 3.0, negative, was classified
C5_Witness == grade_in = -30000 /\ grade_out = "acceptable"

-----------------------------------------------------------------------------
(* BaslerCameraThread: the worker loop, and the GUI thread that handles the *)
(* results it emits.  In this part the clock counts milliseconds.           *)

\* time.time() * 1000 when the loop starts; last_sample_time starts at 0, so
\* the first iteration finds the throttle open whatever the interval is
EpochMs == 4000

\* the loop is followed for this many milliseconds
MaxWorkerMs == 22

\* longest time camera.RetrieveResult blocks before it returns a frame or
\* gives up (gb.CAMERA_TIMEOUT is 5000 in the program)
MaxGrabMs == 9

\* consecutive misses the camera may have (gb.MAX_CAMERA_ERRORS is 10 in the program)
MAX_CAMERA_ERRORS == 2

\* arguments given to set_sampling_interval(): every integer of the allowed
\* range and this many on either side of it
IntervalMargin == 30
IntervalInputs ==
    (MIN_SAMPLING_INTERVAL - IntervalMargin)..(MAX_SAMPLING_INTERVAL + IntervalMargin)

\* positions the sampling slider is moved to while the loop runs; its range is
\* gb.MIN_SAMPLING_INTERVAL to gb.MAX_SAMPLING_INTERVAL
SliderValues == {10, 20}

GrabDurations == {0, MaxGrabMs}

\* a clamp that lets every value below the maximum through
ClampInterval_noMinimum(interval_ms) == Min(interval_ms, MAX_SAMPLING_INTERVAL)

\* max(gb.MIN_SAMPLING_INTERVAL, min(interval_ms, gb.MAX_SAMPLING_INTERVAL))
ClampInterval(interval_ms) ==
    Max(MIN_SAMPLING_INTERVAL, Min(interval_ms, MAX_SAMPLING_INTERVAL))

set_sampling_interval(interval_ms) ==
    /\ sampling_interval' = ClampInterval(interval_ms)
    /\ op' = [name |-> "set_sampling_interval", arg |-> <<interval_ms>>,
              ret |-> "None", fault |-> FALSE]
    /\ UNCHANGED <<running, error_count, frame_count, last_sample_time, signal_queue,
                   produced>>

\* a throttle that opens after a tenth of the interval
ThrottleOpen_tenth(current_time, last, interval) == current_time - last >= interval \div 10

\* time_since_last_sample >= self.sampling_interval
ThrottleOpen(current_time, last, interval) == current_time - last >= interval

\* wait_time = max(1, min(10, self.sampling_interval // 10))
WaitTime(interval) == Max(1, Min(10, interval \div 10))

\* what analyze_frame returns for a frame at time t
AnalyzeReturns(frame, t) ==
    IF frame.kind # "image"
    THEN None
    ELSE Some(AnalysisResult(frame, calibration_lab, is_calibrated, de_method,
                             sample_size_cm, calculate_pixels_per_cm(DEFAULT_DEPTH_MM), t))

\* one pass through the body of `while self.running`: grab_frame, analyze_frame,
\* the emission of the result, then msleep(wait_time).  outcome tells whether
\* the camera delivers a frame, grab_ms how long RetrieveResult blocks, frame
\* the image it delivers.
run_iteration(outcome, grab_ms, frame) ==
    LET current_time == now
    IN IF ~ThrottleOpen(current_time, last_sample_time, sampling_interval)
       THEN /\ now' = now + WaitTime(sampling_interval)
            /\ op' = [name |-> "iteration", arg |-> <<current_time>>, ret |-> "skipped",
                      fault |-> FALSE]
            /\ UNCHANGED <<error_count, frame_count, last_sample_time, signal_queue,
                           produced, result, pixels_per_cm>>
       ELSE IF outcome = "idle"                 \* grab_frame: not self.is_grabbing
       THEN /\ last_sample_time' = current_time
            /\ now' = now + WaitTime(sampling_interval)
            /\ op' = [name |-> "iteration", arg |-> <<current_time>>, ret |-> "idle",
                      fault |-> FALSE]
            /\ UNCHANGED <<error_count, frame_count, signal_queue, produced, result,
                           pixels_per_cm>>
       ELSE IF outcome = "miss"
       THEN /\ error_count' = error_count + 1
            /\ last_sample_time' = current_time
            /\ now' = now + grab_ms + WaitTime(sampling_interval)
            /\ op' = [name |-> "iteration", arg |-> <<current_time>>, ret |-> "miss",
                      fault |-> FALSE]
            /\ UNCHANGED <<frame_count, signal_queue, produced, result, pixels_per_cm>>
       ELSE LET analysis_result == AnalyzeReturns(frame, now + grab_ms)
            IN /\ frame_count' = frame_count + 1
               /\ error_count' = 0
               /\ pixels_per_cm' = calculate_pixels_per_cm(DEFAULT_DEPTH_MM)
               /\ result' = analysis_result
               /\ signal_queue' = IF analysis_result = None
                                   THEN signal_queue
                                   ELSE Append(signal_queue, analysis_result[1])
               /\ produced' = IF analysis_result = None
                               THEN produced
                               ELSE Append(produced,
                                           [timestamp |-> analysis_result[1].timestamp,
                                            iteration |-> current_time])
               /\ last_sample_time' = current_time
               /\ now' = now + grab_ms + WaitTime(sampling_interval)
               /\ op' = [name |-> "iteration", arg |-> <<current_time>>, ret |-> "frame",
                         fault |-> FALSE]

\* BaslerCameraThread.stop
stop ==
    /\ running' = FALSE
    /\ op' = [name |-> "stop", arg |-> <<>>, ret |-> "None", fault |-> FALSE]
    /\ UNCHANGED <<error_count, frame_count, sampling_interval, last_sample_time,
                   signal_queue, produced>>

\* a connection that hands the newest emission to the slot first
NextSignal_newestFirst(q) == q[Len(q)]

\* color_analysis_signal.connect(process_color_analysis): the emissions of the
\* worker thread are queued for the GUI thread, which handles the oldest first
NextSignal(q) == Head(q)

notWorkerVars == <<calibration_lab, is_calibrated, sample_size_cm, de_method,
                   calibrated_with, pc, grade_in, grade_out, engineVars, queryVars, threadVars, raceVars>>

WorkerIteration ==
    \E outcome \in {"frame", "miss"}, grab_ms \in GrabDurations :
        /\ running
        /\ now < EpochMs + MaxWorkerMs
        /\ run_iteration(outcome, grab_ms, ImageFrame(SceneL(now + grab_ms)))
        /\ UNCHANGED <<running, sampling_interval>>
        /\ UNCHANGED <<history_data, start_time, save_counter, stats_cache_time,
                       stats_cache, stats_out, last_saved, file, graphVars, warningVars>>
        /\ UNCHANGED notWorkerVars

\* MainWindow.update_sampling_interval: the slider was moved
UpdateSamplingInterval ==
    \E value \in SliderValues :
        /\ set_sampling_interval(value)
        /\ UNCHANGED <<now, result, pixels_per_cm, history_data, start_time, save_counter,
                       stats_cache_time, stats_cache, stats_out, last_saved, file,
                       graphVars, warningVars>>
        /\ UNCHANGED notWorkerVars

\* the GUI thread handles the next queued emission
HandleSignal ==
    /\ signal_queue # <<>>
    /\ now' = now
    /\ process_color_analysis(NextSignal(signal_queue), TRUE, TRUE, now \div 1000)
    /\ signal_queue' = Tail(signal_queue)
    /\ UNCHANGED <<running, error_count, frame_count, sampling_interval, last_sample_time,
                   produced, result, pixels_per_cm>>
    /\ UNCHANGED notWorkerVars

Stop ==
    /\ running
    /\ stop
    /\ UNCHANGED <<now, result, pixels_per_cm, history_data, start_time, save_counter,
                   stats_cache_time, stats_cache, stats_out, last_saved, file, graphVars,
                   warningVars>>
    /\ UNCHANGED notWorkerVars

NextWorker ==
    \/ WorkerIteration
    \/ UpdateSamplingInterval
    \/ HandleSignal
    \/ Stop

SpecWorker == InitAt(EpochMs) /\ [][NextWorker]_vars

-----------------------------------------------------------------------------
(* set_sampling_interval applied to one integer after another *)

SetSamplingInterval ==
    \E interval_ms \in IntervalInputs :
        /\ set_sampling_interval(interval_ms)
        /\ UNCHANGED <<now, result, pixels_per_cm, history_data, start_time, save_counter,
                       stats_cache_time, stats_cache, stats_out, last_saved, file,
                       graphVars, warningVars>>
        /\ UNCHANGED notWorkerVars

NextInterval == SetSamplingInterval

SpecInterval == Init /\ [][NextInterval]_vars

-----------------------------------------------------------------------------
(* Claims about the worker (SpecWorker) and its interval (SpecInterval) *)

\* C12: once the consecutive acquisition misses exceed MAX_CAMERA_ERRORS the
\* worker has stopped its loop; a miss that leaves the count at or below the
\* ceiling only increments error_count and the loop goes on, and a successful
\* grab resets error_count to 0.
C12_FatalStopPastCeiling ==
    /\ [](error_count > MAX_CAMERA_ERRORS => ~running)
    /\ [][op'.name = "iteration"
          => /\ (op'.ret = "miss" /\ error_count' <= MAX_CAMERA_ERRORS)
                 => (error_count' = error_count + 1 /\ running')
             /\ op'.ret = "frame" => error_count' = 0]_vars

\* C13: a frame is grabbed only in an iteration that starts at least
\* sampling_interval ms after the iteration of the previous grab, any two
\* consecutive emitted results are at least sampling_interval ms apart, and an
\* iteration that comes sooner grabs nothing and queues nothing.
C13_Throttle ==
    [][op'.name = "iteration"
       => LET open == now - last_sample_time >= sampling_interval
          IN /\ op'.ret \in {"frame", "miss"} => open
             /\ (op'.ret = "frame" /\ produced # <<>>)
                   => produced'[Len(produced')].timestamp
                        - produced[Len(produced)].timestamp >= sampling_interval
             /\ ~open => /\ op'.ret = "skipped"
                          /\ UNCHANGED <<signal_queue, produced, frame_count, error_count,
                                         last_sample_time, result>>]_vars

\* C13 as amended: a frame is grabbed only in an iteration that starts at
\* least sampling_interval ms after the iteration of the previous grab, the
\* iterations that grabbed the frames of any two consecutive emitted results
\* start at least sampling_interval ms apart, and an iteration that comes
\* sooner grabs nothing and queues nothing.
C13_ThrottleBetweenIterations ==
    [][op'.name = "iteration"
       => LET open == now - last_sample_time >= sampling_interval
          IN /\ op'.ret \in {"frame", "miss"} => open
             /\ (op'.ret = "frame" /\ produced # <<>>)
                   => produced'[Len(produced')].iteration
                        - produced[Len(produced)].iteration >= sampling_interval
             /\ ~open => /\ op'.ret = "skipped"
                          /\ UNCHANGED <<signal_queue, produced, frame_count, error_count,
                                         last_sample_time, result>>]_vars

\* two results were emitted whose time stamps are closer than the interval,
\* the first grab having blocked and the second not
C13_Witness ==
    /\ op.name = "iteration"
    /\ op.ret = "frame"
    /\ Len(produced) >= 2
    /\ produced[Len(produced)].timestamp - produced[Len(produced) - 1].timestamp
         < sampling_interval
    /\ produced[Len(produced)].iteration - produced[Len(produced) - 1].iteration
         >= sampling_interval

\* the time stamps of the results the store holds, then of those still queued
DeliveredThenQueued ==
    [i \in 1..(Len(history_data) + Len(signal_queue)) |->
        IF i <= Len(history_data) THEN history_data[i].absolute_time
        ELSE signal_queue[i - Len(history_data)].timestamp]

C15_IntervalClamped ==
    /\ [](10 <= sampling_interval /\ sampling_interval <= 1000)
    /\ [][op'.name = "set_sampling_interval"
          => LET v == op'.arg[1]
             IN sampling_interval' = IF v < 10 THEN 10 ELSE IF v > 1000 THEN 1000 ELSE v]_vars

\* a value below the range was raised to its lower end
C15_Witness ==
    /\ op.name = "set_sampling_interval"
    /\ op.arg[1] = 9
    /\ sampling_interval = 10

-----------------------------------------------------------------------------
(* The delta-E engine as a function: calculate_color_differences applied   *)
(* to a pair of LAB triples under the method the analyzer is set to        *)

\* lightness values for which S_L stays within the model's number width
EngineLs == {30, 40, 50, 60, 70}

\* (a, b) of integer chroma 0, 5, 12 and 20
EngineChromaticities == {<<0, 0>>, <<3, 4>>, <<0, -12>>, <<12, 16>>}

EngineColours ==
    {<<L, ab[1], ab[2]>> : L \in EngineLs, ab \in EngineChromaticities}

\* a triple of floats whose chroma is beyond the range of C_avg**7 (such as
\* a = 1e60 in the program), alone or averaged with an achromatic colour
WideLab == <<50, 2 * MaxPow7Chroma + 2, 0>>

\* the achromatic colours a wide triple is paired with
WidePartners == {<<L, 0, 0>> : L \in {40, 50, 60}}

EnginePairs ==
    {pair \in EngineColours \X EngineColours : SameChromaticity(pair[1], pair[2])}
    \cup ({WideLab} \X WidePartners)
    \cup (WidePartners \X {WideLab})
    \cup {<<WideLab, WideLab>>}

InitDeltaE == \E pair \in EnginePairs : InitWith(0, pair[1], pair[2])

notEngineVars == <<now, analyzerVars, storeVars, file, graphVars, pc, gradeVars,
                   op, workerVars, warningVars, queryVars, threadVars, raceVars>>

\* one call of calculate_color_differences(lab1, lab2); self.de_method is read
CalculateColorDifferences ==
    /\ de_out' = Some([method |-> de_method,
                       diffs |-> calculate_color_differences(de_lab1, de_lab2, de_method)])
    /\ UNCHANGED <<de_lab1, de_lab2>>
    /\ UNCHANGED notEngineVars

NextDeltaE ==
    \/ UpdateDeMethod
    \/ CalculateColorDifferences

SpecDeltaE == InitDeltaE /\ [][NextDeltaE]_vars

\* some step of the CIEDE2000 computation on the pair is not finite
NonFiniteStep(lab1, lab2) == Pow7Overflows(Chroma(lab1) + Chroma(lab2))

\* C19: when a step of the CIEDE2000 computation is not finite, the bundle
\* carries the CIE76 value of the same pair as its CIEDE2000 value, and no
\* non-finite number.
C19_NonFiniteFallsBackToCIE76 ==
    (/\ de_out # None
     /\ de_out[1].method = DE_METHOD_CIE2000
     /\ NonFiniteStep(de_lab1, de_lab2))
    => /\ de_out[1].diffs.de2000 # NaN
       /\ de_out[1].diffs.de # NaN
       /\ de_out[1].diffs.de2000 = RoundReal(calculate_delta_e_76(de_lab1, de_lab2))

\* C20: for every LAB triple A, the CIE76 and the CIEDE2000 difference of A
\* and A are both exactly zero, achromatic or not.
C20_IdenticalColoursDifferByZero ==
    (de_out # None /\ de_lab1 = de_lab2)
    => LET de_76 == calculate_delta_e_76(de_lab1, de_lab2)
           de_2000 == calculate_delta_e_2000(de_lab1, de_lab2)
       IN /\ de_76.finite /\ de_76.radicand = 0
          /\ de_2000.finite /\ de_2000.radicand = 0
          /\ de_out[1].diffs.de76 = 0
          /\ de_out[1].diffs.de2000 = 0

-----------------------------------------------------------------------------
(* The warnings of the analysis tab: results of every grade arrive, one    *)
(* or two seconds apart                                                    *)

\* time.time() when the tab is built, in seconds
EpochS == 4

\* the arrivals are followed for this many seconds
MaxWarnSpan == 6

\* lightness of the scenes: delta-E 3.0 (acceptable), 4.0 (defective) and
\* 6.0 (out of range) against the default reference
WarnSceneLs == {53, 54, 56}

ReceiveResult ==
    \E elapsed \in {1, 2}, L \in WarnSceneLs :
        /\ now + elapsed <= EpochS + MaxWarnSpan
        /\ now' = now + elapsed
        /\ process_color_analysis(
               AnalysisResult(ImageFrame(L), calibration_lab, is_calibrated,
                              de_method, sample_size_cm,
                              calculate_pixels_per_cm(DEFAULT_DEPTH_MM), now'),
               TRUE, TRUE, now')
        /\ UNCHANGED <<calibration_lab, is_calibrated, sample_size_cm, pixels_per_cm,
                       de_method, result, calibrated_with, pc, grade_in, grade_out,
                       workerVars, engineVars, queryVars, threadVars, raceVars>>

NextWarning == ReceiveResult

SpecWarning == InitAt(EpochS) /\ [][NextWarning]_vars

\* C21: a warning is raised only for a result whose selected delta-E grades
\* as defective or out_of_range, never for one graded excellent, good or
\* acceptable, and any two consecutive warnings are more than
\* WARNING_COOLDOWN seconds apart.
C21_WarningsOnlyForAlertableAfterCooldown ==
    /\ [](\A i \in 1..Len(warnings) :
            /\ get_quality_grade(warnings[i].de * 1000) \in {"defective", "out_of_range"}
            /\ i > 1 => warnings[i].time - warnings[i - 1].time > WARNING_COOLDOWN)
    /\ [][op'.name = "process"
          => LET de == op'.arg[1].color_diffs.de
             IN /\ get_quality_grade(de * 1000) \in {"excellent", "good", "acceptable"}
                   => warnings' = warnings
                /\ warnings' # warnings
                   => warnings' = Append(warnings, [time |-> now', de |-> de])]_vars

\* two warnings were raised, the second as soon as the cooldown allowed, and
\* the result handled last is acceptable
C21_Witness ==
    /\ Len(warnings) >= 2
    /\ warnings[2].time - warnings[1].time = WARNING_COOLDOWN + 1
    /\ op.name = "process"
    /\ get_quality_grade(op.arg[1].color_diffs.de * 1000) = "acceptable"

-----------------------------------------------------------------------------
(* The queries of the data manager: get_recent_data and export_csv *)

\* list(self.history_data)[-count:]; -0 is 0, so a count of 0 slices from the
\* start, and a count beyond the length does too
LastSlice(h, count) ==
    IF count = 0 \/ count >= Len(h) THEN h
    ELSE SubSeq(h, Len(h) - count + 1, Len(h))

\* get_recent_data(count=count), no time window
get_recent_data(count) ==
    /\ recent_out' = Some(IF Len(history_data) = 0 THEN <<>>
                          ELSE LastSlice(history_data, count))
    /\ op' = [name |-> "get_recent_data", arg |-> <<count>>, ret |-> "list",
              fault |-> FALSE]
    /\ UNCHANGED <<csv_out>>
    /\ UNCHANGED storeVars
    /\ UNCHANGED file

\* the header csv.DictWriter writes (gb.CSV_INCLUDE_HEADERS is True)
fieldnames ==
    <<"time", "absolute_time", "de", "de76", "de2000", "dl", "da", "db", "dc", "dh",
      "lab_l", "lab_a", "lab_b", "rgb_r", "rgb_g", "rgb_b",
      "calibrated", "sample_size_cm", "de_method">>

\* a writer that lists the absolute time first
CsvRow_absoluteFirst(data_point) ==
    <<data_point.absolute_time, data_point.time, data_point.de, data_point.de76,
      data_point.de2000, data_point.dl, data_point.da, data_point.db, data_point.dc,
      data_point.dh, data_point.lab[1], data_point.lab[2], data_point.lab[3],
      data_point.rgb[1], data_point.rgb[2], data_point.rgb[3],
      data_point.calibrated, data_point.sample_size_cm, data_point.de_method>>

\* the row written for one entry, in the order of fieldnames
CsvRow(data_point) ==
    <<data_point.time, data_point.absolute_time, data_point.de, data_point.de76,
      data_point.de2000, data_point.dl, data_point.da, data_point.db, data_point.dc,
      data_point.dh, data_point.lab[1], data_point.lab[2], data_point.lab[3],
      data_point.rgb[1], data_point.rgb[2], data_point.rgb[3],
      data_point.calibrated, data_point.sample_size_cm, data_point.de_method>>

\* export_csv(filename): csv_out is the content of that file, header first;
\* an empty store is refused before the file is opened, and open() raising
\* (disk_ok false) leaves the file as it was
export_csv(disk_ok) ==
    /\ IF Len(history_data) = 0
       THEN /\ csv_out' = csv_out
            /\ op' = [name |-> "export_csv", arg |-> <<disk_ok>>, ret |-> "False",
                      fault |-> FALSE]
       ELSE IF disk_ok
       THEN /\ csv_out' = Some([header |-> fieldnames,
                                 rows |-> [i \in 1..Len(history_data)
                                            |-> CsvRow(history_data[i])]])
            /\ op' = [name |-> "export_csv", arg |-> <<disk_ok>>, ret |-> "True",
                      fault |-> FALSE]
       ELSE /\ csv_out' = csv_out
            /\ op' = [name |-> "export_csv", arg |-> <<disk_ok>>, ret |-> "False",
                      fault |-> TRUE]
    /\ UNCHANGED <<recent_out>>
    /\ UNCHANGED storeVars
    /\ UNCHANGED file

notQueryVars == <<analyzerVars, graphVars, pc, gradeVars, workerVars, engineVars,
                  warningVars, threadVars, raceVars>>

\* the counts asked for: none, some, all and more than the store can hold
RecentCounts == 0..(HISTORY_SIZE + 1)

GetRecentData ==
    \E count \in RecentCounts :
        get_recent_data(count) /\ UNCHANGED now /\ UNCHANGED notQueryVars

ExportCsv ==
    \E disk_ok \in BOOLEAN :
        export_csv(disk_ok) /\ UNCHANGED now /\ UNCHANGED notQueryVars

NextQuery ==
    \/ AddDataPoint
    \/ AddNothing
    \/ ClearHistory
    \/ GetRecentData
    \/ ExportCsv
    \/ GetStatistics

SpecQuery == Init /\ [][NextQuery]_vars

\* the row of an entry carries the 19 fields in the order of the header
RowCarries(row, data_point) ==
    /\ Len(row) = 19
    /\ row[1] = data_point.time /\ row[2] = data_point.absolute_time
    /\ row[3] = data_point.de /\ row[4] = data_point.de76 /\ row[5] = data_point.de2000
    /\ row[6] = data_point.dl /\ row[7] = data_point.da /\ row[8] = data_point.db
    /\ row[9] = data_point.dc /\ row[10] = data_point.dh
    /\ row[11] = data_point.lab[1] /\ row[12] = data_point.lab[2]
    /\ row[13] = data_point.lab[3]
    /\ row[14] = data_point.rgb[1] /\ row[15] = data_point.rgb[2]
    /\ row[16] = data_point.rgb[3]
    /\ row[17] = data_point.calibrated /\ row[18] = data_point.sample_size_cm
    /\ row[19] = data_point.de_method

\* the file holds one header row and one row per entry of h, in the order of h
HoldsExportOf(csv, h) ==
    /\ csv # None
    /\ csv[1].header =
         <<"time", "absolute_time", "de", "de76", "de2000", "dl", "da", "db", "dc",
           "dh", "lab_l", "lab_a", "lab_b", "rgb_r", "rgb_g", "rgb_b", "calibrated",
           "sample_size_cm", "de_method">>
    /\ Len(csv[1].rows) = Len(h)
    /\ \A i \in 1..Len(h) : RowCarries(csv[1].rows[i], h[i])

\* C22: an export whose file can be written writes one header row and exactly
\* one data row per history entry, in store order, each row carrying the 19
\* fields in the order time, absolute_time, de, de76, de2000, dl, da, db, dc,
\* dh, lab_l, lab_a, lab_b, rgb_r, rgb_g, rgb_b, calibrated, sample_size_cm,
\* de_method; the export does not change the store.
C22_ExportWritesEveryEntry ==
    [][op'.name = "export_csv"
       => /\ history_data' = history_data
          /\ op'.arg[1] => HoldsExportOf(csv_out', history_data)]_vars

\* C22 as amended: for a store that is not empty, an export whose file can be
\* written returns true and writes one header row and exactly one data row per
\* entry, in store order, with the 19 fields in that order; for an empty store
\* the export returns false and writes nothing; the store is never changed.
C22_ExportWritesEveryEntryOfNonEmptyStore ==
    [][op'.name = "export_csv"
       => /\ history_data' = history_data
          /\ (op'.arg[1] /\ Len(history_data) > 0)
                => (op'.ret = "True" /\ HoldsExportOf(csv_out', history_data))
          /\ Len(history_data) = 0
                => (op'.ret = "False" /\ csv_out' = csv_out)]_vars

\* a store of two entries was exported: header and two rows
C22_Witness ==
    /\ op.name = "export_csv"
    /\ op.ret = "True"
    /\ Len(history_data) = 2
    /\ csv_out # None
    /\ Len(csv_out[1].rows) = 2
    /\ csv_out[1].rows[2][2] = history_data[2].absolute_time

\* C23: add_data_point returns true for an analysis result and appends exactly
\* one entry; get_recent_data(count=n) returns the last min(n, size) entries
\* in store order for every n >= 0; a statistics() call after an add reports
\* as count the number of stored entries.
C23_AddThenQueries ==
    /\ [][(op'.name = "add" /\ op'.arg # None)
          => /\ op'.ret = "True"
             /\ Len(history_data') = Min(Len(history_data) + 1, HISTORY_SIZE)
             /\ history_data'[Len(history_data')] = DataPoint(op'.arg[1], start_time)
             /\ \A i \in 1..(Len(history_data') - 1) :
                   history_data'[i] = history_data[Len(history_data) + 1 + i
                                                   - Len(history_data')]]_vars
    /\ [][op'.name = "get_recent_data"
          => LET n == op'.arg[1]
                 size == Len(history_data)
                 k == Min(n, size)
             IN /\ recent_out' # None
                /\ Len(recent_out'[1]) = k
                /\ \A i \in 1..k : recent_out'[1][i] = history_data[size - k + i]]_vars
    /\ [][(op.name = "add" /\ op.ret = "True" /\ op'.name = "get_statistics")
          => (stats_out' # None /\ stats_out'[1].count = Len(history_data))]_vars

-----------------------------------------------------------------------------
(* The life of the worker thread: run() from its first statement, next to  *)
(* a caller of stop()                                                      *)

\* time.sleep(2) of the warm-up, in milliseconds
WarmUpMs == 2000

\* the clock of the loop stops advancing here
ShutdownHorizon == EpochMs + WarmUpMs + MaxWorkerMs

\* start() was called on a thread as its constructor left it
InitShutdown == InitState(EpochMs, REFERENCE_LAB, REFERENCE_LAB, FALSE)

notThreadVars == <<analyzerVars, storeVars, file, graphVars, pc, gradeVars, engineVars,
                   warningVars, queryVars, raceVars>>

\* what run() leaves alone outside its loop body
loopVars == <<error_count, frame_count, sampling_interval, last_sample_time,
              signal_queue, produced>>

\* if not self.initialize_camera(): return.  The camera may be absent, and a
\* disconnect() of the GUI thread in the middle makes it raise.
InitializeCamera ==
    /\ thread_pc = "initialize_camera"
    /\ \E found \in BOOLEAN :
          IF found
          THEN is_connected' = TRUE /\ thread_pc' = "start_grabbing"
          ELSE is_connected' = is_connected /\ thread_pc' = "finished"
    /\ op' = [name |-> "initialize_camera", arg |-> <<>>, ret |-> "None", fault |-> FALSE]
    /\ UNCHANGED <<now, running, stop_pc, is_grabbing, loopVars>>
    /\ UNCHANGED notThreadVars

\* if not self.start_grabbing(): return
StartGrabbing ==
    /\ thread_pc = "start_grabbing"
    /\ IF is_connected
       THEN /\ is_grabbing' = TRUE
            /\ frame_count' = 0
            /\ error_count' = 0
            /\ thread_pc' = "set_running"
       ELSE /\ thread_pc' = "finished"
            /\ UNCHANGED <<is_grabbing, frame_count, error_count>>
    /\ op' = [name |-> "start_grabbing", arg |-> <<>>, ret |-> "None", fault |-> FALSE]
    /\ UNCHANGED <<now, running, stop_pc, is_connected, sampling_interval,
                   last_sample_time, signal_queue, produced>>
    /\ UNCHANGED notThreadVars

\* self.running = True; last_sample_time = 0
SetRunning ==
    /\ thread_pc = "set_running"
    /\ running' = TRUE
    /\ last_sample_time' = 0
    /\ thread_pc' = "warm_up"
    /\ op' = [name |-> "set_running", arg |-> <<>>, ret |-> "None", fault |-> FALSE]
    /\ UNCHANGED <<now, stop_pc, is_connected, is_grabbing, error_count, frame_count,
                   sampling_interval, signal_queue, produced>>
    /\ UNCHANGED notThreadVars

\* time.sleep(2)
WarmUp ==
    /\ thread_pc = "warm_up"
    /\ now' = now + WarmUpMs
    /\ thread_pc' = "loop_test"
    /\ op' = [name |-> "warm_up", arg |-> <<>>, ret |-> "None", fault |-> FALSE]
    /\ UNCHANGED <<running, stop_pc, is_connected, is_grabbing, loopVars>>
    /\ UNCHANGED notThreadVars

\* while self.running:
LoopTest ==
    /\ thread_pc = "loop_test"
    /\ thread_pc' = IF running THEN "loop_body" ELSE "finished"
    /\ op' = [name |-> "loop_test", arg |-> <<>>, ret |-> "None", fault |-> FALSE]
    /\ UNCHANGED <<now, running, stop_pc, is_connected, is_grabbing, loopVars>>
    /\ UNCHANGED notThreadVars

\* one pass through the loop body; once the camera is no longer grabbing
\* grab_frame returns None at once
LoopBody ==
    /\ thread_pc = "loop_body"
    /\ thread_pc' = "loop_test"
    /\ IF now < ShutdownHorizon
       THEN \E outcome \in IF is_grabbing THEN {"frame", "miss"} ELSE {"idle"} :
               run_iteration(outcome, 0, ImageFrame(SceneL(now)))
       ELSE UNCHANGED <<now, op, error_count, frame_count, last_sample_time,
                        signal_queue, produced, result, pixels_per_cm>>
    /\ UNCHANGED <<running, sampling_interval, stop_pc, is_connected, is_grabbing>>
    /\ UNCHANGED <<calibration_lab, is_calibrated, sample_size_cm, de_method,
                   calibrated_with>>
    /\ UNCHANGED <<storeVars, file, graphVars, pc, gradeVars, engineVars, warningVars,
                   queryVars, raceVars>>

\* stop(): self.running = False
StopCall ==
    /\ stop_pc = "idle"
    /\ stop
    /\ stop_pc' = "disconnect"
    /\ UNCHANGED <<now, thread_pc, is_connected, is_grabbing>>
    /\ UNCHANGED notThreadVars

\* stop(): self.disconnect()
Disconnect ==
    /\ stop_pc = "disconnect"
    /\ is_grabbing' = FALSE
    /\ is_connected' = FALSE
    /\ stop_pc' = "wait"
    /\ op' = [name |-> "disconnect", arg |-> <<>>, ret |-> "None", fault |-> FALSE]
    /\ UNCHANGED <<now, running, thread_pc, loopVars>>
    /\ UNCHANGED notThreadVars

\* stop(): self.wait() returns once run() has returned
Wait ==
    /\ stop_pc = "wait"
    /\ thread_pc = "finished"
    /\ stop_pc' = "returned"
    /\ op' = [name |-> "wait", arg |-> <<>>, ret |-> "None", fault |-> FALSE]
    /\ UNCHANGED <<now, running, thread_pc, is_connected, is_grabbing, loopVars>>
    /\ UNCHANGED notThreadVars

ThreadStep ==
    \/ InitializeCamera
    \/ StartGrabbing
    \/ SetRunning
    \/ WarmUp
    \/ LoopTest
    \/ LoopBody

StopStep ==
    \/ Disconnect
    \/ Wait

NextShutdown ==
    \/ ThreadStep
    \/ StopCall
    \/ StopStep

\* both threads are scheduled again and again; nobody has to call stop()
SpecShutdown ==
    InitShutdown /\ [][NextShutdown]_vars /\ WF_vars(ThreadStep) /\ WF_vars(StopStep)

\* C24: once stop() has been called, the worker's run() returns and stop()
\* returns, however the call is interleaved with the worker's start-up and
\* with its loop iterations.
C24_StopTerminates ==
    (stop_pc # "idle") ~> (thread_pc = "finished" /\ stop_pc = "returned")

-----------------------------------------------------------------------------
(* analyze_frame on the worker thread, one read of a shared field at a     *)
(* time, while the GUI thread calibrates, resets and changes the method    *)

notRaceVars == <<now, storeVars, file, graphVars, pc, gradeVars, workerVars, engineVars,
                 warningVars, queryVars, threadVars>>

\* the fields of the analyzer the GUI thread writes
sharedVars == <<calibration_lab, is_calibrated, de_method, calibrated_with>>

\* lightness of the scene in front of the camera
RaceSceneLs == {53, 56}

RaceOp(name) == [name |-> name, arg |-> <<>>, ret |-> "None", fault |-> FALSE]

\* analyze_frame is entered: self.pixels_per_cm is assigned
BeginAnalyze ==
    /\ an_pc = "idle"
    /\ \E L \in RaceSceneLs : an_local' = [NoLocals EXCEPT !.L = L]
    /\ pixels_per_cm' = calculate_pixels_per_cm(DEFAULT_DEPTH_MM)
    /\ an_pc' = "read_flag"
    /\ op' = RaceOp("begin_analyze")
    /\ UNCHANGED <<sharedVars, sample_size_cm, result, ui_pc>>
    /\ UNCHANGED notRaceVars

\* ... if self.is_calibrated ...
ReadFlag ==
    /\ an_pc = "read_flag"
    /\ an_local' = [an_local EXCEPT !.flag = is_calibrated]
    /\ an_pc' = "read_reference"
    /\ op' = RaceOp("read")
    /\ UNCHANGED <<sharedVars, sample_size_cm, pixels_per_cm, result, ui_pc>>
    /\ UNCHANGED notRaceVars

\* reference = self.calibration_lab ... else self.reference_lab
ReadReference ==
    /\ an_pc = "read_reference"
    /\ an_local' = [an_local EXCEPT
                      !.reference = IF an_local.flag THEN calibration_lab
                                    ELSE REFERENCE_LAB]
    /\ an_pc' = "read_method_2000"
    /\ op' = RaceOp("read")
    /\ UNCHANGED <<sharedVars, sample_size_cm, pixels_per_cm, result, ui_pc>>
    /\ UNCHANGED notRaceVars

\* de_2000 = ... if self.de_method == gb.DE_METHOD_CIE2000 else de_76
ReadMethod2000 ==
    /\ an_pc = "read_method_2000"
    /\ an_local' = [an_local EXCEPT !.method_2000 = de_method]
    /\ an_pc' = "read_method_de"
    /\ op' = RaceOp("read")
    /\ UNCHANGED <<sharedVars, sample_size_cm, pixels_per_cm, result, ui_pc>>
    /\ UNCHANGED notRaceVars

\* 'de': round(de_2000 if self.de_method == gb.DE_METHOD_CIE2000 else de_76, ...)
ReadMethodDe ==
    /\ an_pc = "read_method_de"
    /\ an_local' = [an_local EXCEPT !.method_de = de_method]
    /\ an_pc' = "read_calibrated"
    /\ op' = RaceOp("read")
    /\ UNCHANGED <<sharedVars, sample_size_cm, pixels_per_cm, result, ui_pc>>
    /\ UNCHANGED notRaceVars

\* 'calibrated': self.is_calibrated
ReadCalibrated ==
    /\ an_pc = "read_calibrated"
    /\ an_local' = [an_local EXCEPT !.calibrated = is_calibrated]
    /\ an_pc' = "package"
    /\ op' = RaceOp("read")
    /\ UNCHANGED <<sharedVars, sample_size_cm, pixels_per_cm, result, ui_pc>>
    /\ UNCHANGED notRaceVars

\* 'de_method': self.de_method, and the result is returned
Package ==
    /\ an_pc = "package"
    /\ result' = Some(PackagedResult(ImageFrame(an_local.L), an_local.reference,
                                     an_local.method_2000, an_local.method_de,
                                     an_local.calibrated, de_method, sample_size_cm,
                                     pixels_per_cm, now))
    /\ an_pc' = "idle"
    /\ op' = [name |-> "analyze_frame", arg |-> <<ImageFrame(an_local.L)>>,
              ret |-> "result", fault |-> ~IsLab(an_local.reference)]
    /\ UNCHANGED <<sharedVars, sample_size_cm, pixels_per_cm, an_local, ui_pc>>
    /\ UNCHANGED notRaceVars

\* calibrate: self.calibration_lab = np.array(lab_value, ...)
CalibrateAssign ==
    /\ ui_pc = "idle"
    /\ \E lab_value \in LabInputs :
          /\ calibration_lab' = lab_value
          /\ calibrated_with' = lab_value
    /\ ui_pc' = "calibrate_flag"
    /\ op' = RaceOp("calibrate_assign")
    /\ UNCHANGED <<is_calibrated, de_method, sample_size_cm, pixels_per_cm, result,
                   an_pc, an_local>>
    /\ UNCHANGED notRaceVars

\* calibrate: self.is_calibrated = True
CalibrateFlag ==
    /\ ui_pc = "calibrate_flag"
    /\ is_calibrated' = TRUE
    /\ ui_pc' = "idle"
    /\ op' = RaceOp("calibrate")
    /\ UNCHANGED <<calibration_lab, calibrated_with, de_method, sample_size_cm,
                   pixels_per_cm, result, an_pc, an_local>>
    /\ UNCHANGED notRaceVars

\* reset_calibration: self.calibration_lab = None
ResetAssign ==
    /\ ui_pc = "idle"
    /\ calibration_lab' = None
    /\ calibrated_with' = None
    /\ ui_pc' = "reset_flag"
    /\ op' = RaceOp("reset_assign")
    /\ UNCHANGED <<is_calibrated, de_method, sample_size_cm, pixels_per_cm, result,
                   an_pc, an_local>>
    /\ UNCHANGED notRaceVars

\* reset_calibration: self.is_calibrated = False
ResetFlag ==
    /\ ui_pc = "reset_flag"
    /\ is_calibrated' = FALSE
    /\ ui_pc' = "idle"
    /\ op' = RaceOp("reset_calibration")
    /\ UNCHANGED <<calibration_lab, calibrated_with, de_method, sample_size_cm,
                   pixels_per_cm, result, an_pc, an_local>>
    /\ UNCHANGED notRaceVars

\* ColorAnalyzerTab.update_de_method: self.color_analyzer.de_method = method
AssignMethod ==
    /\ ui_pc = "idle"
    /\ \E method \in {DE_METHOD_CIE76, DE_METHOD_CIE2000} :
          /\ method # de_method
          /\ de_method' = method
    /\ op' = RaceOp("update_de_method")
    /\ UNCHANGED <<calibration_lab, is_calibrated, calibrated_with, sample_size_cm,
                   pixels_per_cm, result, an_pc, an_local, ui_pc>>
    /\ UNCHANGED notRaceVars

NextRace ==
    \/ BeginAnalyze
    \/ ReadFlag
    \/ ReadReference
    \/ ReadMethod2000
    \/ ReadMethodDe
    \/ ReadCalibrated
    \/ Package
    \/ CalibrateAssign
    \/ CalibrateFlag
    \/ ResetAssign
    \/ ResetFlag
    \/ AssignMethod

SpecRace == Init /\ [][NextRace]_vars

\* the value the named method gives for the pair, rounded as the bundle is
DeOfMethod(method, lab1, lab2) ==
    RoundReal(IF method = DE_METHOD_CIE2000 THEN calculate_delta_e_2000(lab1, lab2)
              ELSE calculate_delta_e_76(lab1, lab2))

\* C25: every result analyze_frame returns is consistent whatever the GUI
\* thread does meanwhile: the reference the differences were computed against
\* is never an absent calibration value, the calibrated flag tells whether
\* that reference was the calibration value, and de holds the value of the
\* method de_method names.
C25_ResultConsistentUnderConcurrentChanges ==
    (op.name = "analyze_frame" /\ result # None)
    => LET reference == an_local.reference
           lab == convert_opencv_lab_to_standard(ImageFrame(an_local.L).lab_opencv)
       IN /\ reference # None
          /\ result[1].calibrated = an_local.flag
          /\ result[1].color_diffs.de = DeOfMethod(result[1].de_method, reference, lab)

-----------------------------------------------------------------------------
(* Claims about the statistics cache (checked under SpecStats) *)

\* C26: a statistics() call that is not forced never returns statistics
\* computed from other entries than the current ones: the count it returns
\* equals the current number of entries, whatever adds, clears and loads
\* came before.
C26_CacheFollowsEntries ==
    [][(op'.name = "get_statistics" /\ ~op'.arg[1] /\ Len(history_data) > 0)
       => /\ stats_out' # None
          /\ stats_out'[1].count = Len(history_data)
          /\ stats_out'[1] = ComputeStatistics(history_data)]_vars

-----------------------------------------------------------------------------
(* Claims about the automatic save (checked under SpecStore) *)

\* the add saved the entries it left in the store, or tried to and failed
SaveAttempted ==
    \/ op'.fault
    \/ /\ last_saved' = Some(history_data')
       /\ file' # None
       /\ file'[1].data = history_data'

\* C27: the store attempts a save on exactly every K-th successful append
\* counted since the previous automatic save or clear (K is
\* HISTORY_AUTO_SAVE_INTERVAL) and on no other append; the counter is reset
\* after the attempt whether or not the save succeeded, and a failed save
\* never makes the add fail.
C27_AutoSaveEveryKthAppend ==
    /\ [](save_counter \in 0..(HISTORY_AUTO_SAVE_INTERVAL - 1))
    /\ [][(op'.name = "add" /\ op'.arg # None)
          => /\ op'.ret = "True"
             /\ IF save_counter + 1 = HISTORY_AUTO_SAVE_INTERVAL
                THEN SaveAttempted /\ save_counter' = 0
                ELSE /\ ~op'.fault
                     /\ UNCHANGED <<file, last_saved>>
                     /\ save_counter' = save_counter + 1]_vars
    /\ [][(op'.name = "clear") => save_counter' = 0]_vars
    /\ [][(op'.name = "save") => save_counter' = save_counter]_vars

\* the K-th append could not write the file: the add returned True all the
\* same and the count starts again
C27_Witness ==
    /\ op.name = "add"
    /\ op.ret = "True"
    /\ op.fault
    /\ save_counter = 0
    /\ Len(history_data) >= HISTORY_AUTO_SAVE_INTERVAL

\* C28: after clear() followed by a save() that returned True, the snapshot
\* holds none of the cleared entries, and a store created afterwards, which
\* loads the snapshot at construction, starts with zero entries.
C28_ClearThenSavePersistsEmpty ==
    /\ []((op.name = "save" /\ op.ret = "True" /\ Len(history_data) = 0)
            => SnapshotEntries(file) = <<>>)
    /\ [][(/\ op.name = "save" /\ op.ret = "True" /\ Len(history_data) = 0
           /\ op'.name = "load")
          => Len(history_data') = 0]_vars

-----------------------------------------------------------------------------
(* Claims about the analysis result (checked under SpecAnalyzer) *)

\* C29: analyze_frame never returns a non-null result whose delta-E values
\* are all 0 unless the differences of the sampled colour from the active
\* reference really round to 0; a fault inside the difference computation
\* does not produce such a result.
C29_ZeroDeltaEOnlyForRealMatch ==
    (/\ op.name = "analyze_frame"
     /\ result # None
     /\ result[1].color_diffs.de = 0
     /\ result[1].color_diffs.de76 = 0
     /\ result[1].color_diffs.de2000 = 0)
    => /\ ~op.fault
       /\ LET sample == convert_opencv_lab_to_standard(op.arg[1].lab_opencv)
              reference == ActiveReference(calibration_lab, is_calibrated)
          IN /\ RoundReal(calculate_delta_e_76(reference, sample)) = 0
             /\ RoundReal(calculate_delta_e_2000(reference, sample)) = 0

\* C30: when the requested side fits into the frame (no bound is clamped),
\* the sampling rectangle is a square centred on (W div 2, H div 2) whose
\* side is sample_size_cm * pixels_per_cm truncated to an integer.
C30_UnclampedSquareHasRequestedSide ==
    (op.name = "analyze_frame" /\ result # None)
    => LET W == op.arg[1].width
           H == op.arg[1].height
           side == (sample_size_cm * pixels_per_cm) \div 100
           r == result[1].sampling_area
       IN (side <= W /\ side <= H)
          => /\ r.x2 - r.x1 = side
             /\ r.y2 - r.y1 = side
             /\ r.x1 + r.x2 = 2 * (W \div 2)
             /\ r.y1 + r.y2 = 2 * (H \div 2)

====
